---- MODULE Spec2Model ----
(***************************************************************************)
(* Model of the risk-gated trading engine of axels_binance_trader_bot:     *)
(*   RiskService      src/backend/src/services/risk.service.ts             *)
(*   StrategyService  src/backend/src/utils/logger.ts (lines 44-377)       *)
(*   TradingService   src/unnamed/part_005 (lines 1-333)                   *)
(* The persistence store is the Amplify data client shared by the backend  *)
(* and the serverless functions (src/backend/src/config/database.ts).      *)
(***************************************************************************)
EXTENDS Integers, Sequences, FiniteSets, TLC

(***************************************************************************)
(* JavaScript numbers.  A number is a pair <<n, d>>: d > 0 is the rational *)
(* n/d in lowest terms, d = 0 is +Infinity (n = 1), -Infinity (n = -1) or  *)
(* NaN (n = 0), and <<0, -1>> is the value undefined of an absent optional *)
(* field.  Rounding of IEEE doubles is not modelled: arithmetic is exact.  *)
(***************************************************************************)
Abs(x) == IF x < 0 THEN -x ELSE x

RECURSIVE GCD(_, _)
GCD(a, b) == IF b = 0 THEN a ELSE GCD(b, a % b)

Rat(n, d) ==
    LET s == IF d < 0 THEN -1 ELSE 1
        g == GCD(Abs(n), Abs(d))
    IN  IF n = 0 THEN <<0, 1>> ELSE <<(s * n) \div g, (s * d) \div g>>

Num(i) == <<i, 1>>
NaN == <<0, 0>>
PosInf == <<1, 0>>
NegInf == <<-1, 0>>
Undefined == <<0, -1>>

IsFinite(x) == x[2] > 0
IsNaN(x) == x = NaN \/ x = Undefined
Sign(x) == IF x[1] > 0 THEN 1 ELSE IF x[1] < 0 THEN -1 ELSE 0
Inf(s) == IF s > 0 THEN PosInf ELSE IF s < 0 THEN NegInf ELSE NaN

\* !x of JavaScript: undefined, NaN and 0 are falsy
Falsy(x) == IsNaN(x) \/ (IsFinite(x) /\ x[1] = 0)

JsNeg(x) == IF IsNaN(x) THEN NaN ELSE IF IsFinite(x) THEN <<-x[1], x[2]>> ELSE Inf(-x[1])

JsAbs(x) == IF IsNaN(x) THEN NaN ELSE IF IsFinite(x) THEN <<Abs(x[1]), x[2]>> ELSE PosInf

JsAdd(x, y) ==
    IF IsNaN(x) \/ IsNaN(y) THEN NaN
    ELSE IF IsFinite(x) /\ IsFinite(y) THEN Rat(x[1] * y[2] + y[1] * x[2], x[2] * y[2])
    ELSE IF IsFinite(x) THEN y
    ELSE IF IsFinite(y) THEN x
    ELSE IF x = y THEN x ELSE NaN

JsSub(x, y) == JsAdd(x, JsNeg(y))

JsMul(x, y) ==
    IF IsNaN(x) \/ IsNaN(y) THEN NaN
    ELSE IF IsFinite(x) /\ IsFinite(y) THEN Rat(x[1] * y[1], x[2] * y[2])
    ELSE Inf(Sign(x) * Sign(y))

JsDiv(x, y) ==
    IF IsNaN(x) \/ IsNaN(y) THEN NaN
    ELSE IF IsFinite(x) /\ IsFinite(y)
         THEN IF y[1] = 0 THEN Inf(Sign(x)) ELSE Rat(x[1] * y[2], x[2] * y[1])
    ELSE IF IsFinite(y) THEN Inf(Sign(x) * (IF y[1] < 0 THEN -1 ELSE 1))
    ELSE IF IsFinite(x) THEN <<0, 1>>
    ELSE NaN

\* x < y of JavaScript: false as soon as one side is NaN
JsLT(x, y) ==
    IF IsNaN(x) \/ IsNaN(y) THEN FALSE
    ELSE IF IsFinite(x) /\ IsFinite(y) THEN x[1] * y[2] < y[1] * x[2]
    ELSE IF IsFinite(x) THEN y = PosInf
    ELSE IF IsFinite(y) THEN x = NegInf
    ELSE x = NegInf /\ y = PosInf

JsGT(x, y) == JsLT(y, x)
JsLE(x, y) == ~IsNaN(x) /\ ~IsNaN(y) /\ ~JsLT(y, x)
JsGE(x, y) == JsLE(y, x)

\* a percentage or a decimal fraction as a number: Pct(2) is 0.02
Pct(p) == Rat(p, 100)
Milli(m) == Rat(m, 1000)

(***************************************************************************)
(* RiskService: configuration (constructor defaults)                       *)
(***************************************************************************)
riskPerTrade == Pct(2)
maxDailyLoss == Pct(10)
initialCapital == Num(100)
MaxRiskCeiling == 5
MinNotional == 10

MutCalculatePositionSize(equity, entryPrice, stopLoss) ==
    JsDiv(JsMul(equity, riskPerTrade), entryPrice)

\* positionSize = (equity * this.riskPerTrade) / |entryPrice - stopLoss| of a
\* service constructed with RISK_PER_TRADE = risk
positionSizeWith(risk, equity, entryPrice, stopLoss) ==
    LET riskAmount == JsMul(equity, risk)
        stopDistance == JsAbs(JsSub(entryPrice, stopLoss))
    IN  JsDiv(riskAmount, stopDistance)

\* positionSize = (equity * riskPerTrade) / |entryPrice - stopLoss|
calculatePositionSize(equity, entryPrice, stopLoss) ==
    positionSizeWith(riskPerTrade, equity, entryPrice, stopLoss)

DailyLimitReason == "Daily loss limit exceeded, trading halted for 24h"

Reject(reason) == [valid |-> FALSE, reason |-> reason, positionSize |-> Undefined]

MutValidateTrade(signal, currentEquity, dailyLossExceeded, hasOpenPosition) ==
    IF signal.direction = "NO_TRADE" THEN Reject("No trade signal generated")
    ELSE IF Falsy(signal.stopLoss) \/ Falsy(signal.entryMax)
         THEN Reject("Missing stop-loss or entry price")
    ELSE IF ~Falsy(signal.maxRiskPercent) /\ JsGT(signal.maxRiskPercent, Num(MaxRiskCeiling))
         THEN Reject("Risk exceeds maximum 5%")
    ELSE IF hasOpenPosition THEN Reject("Already have an open position")
    ELSE IF dailyLossExceeded
         THEN Reject(DailyLimitReason)
    ELSE LET positionSize ==
                 calculatePositionSize(currentEquity, signal.entryMax, signal.stopLoss)
             notionalValue == JsMul(positionSize, signal.entryMax)
         IN  IF JsGT(notionalValue, JsMul(currentEquity, Pct(50)))
             THEN Reject("Position size exceeds 50% of equity")
             ELSE IF JsLT(notionalValue, Num(MinNotional))
             THEN Reject("Position size too small")
             ELSE [valid |-> TRUE, reason |-> "", positionSize |-> positionSize]

\* validateTrade, given what checkDailyLossLimit() and hasOpenPosition(symbol)
\* returned (both are awaited only when the earlier checks passed; neither
\* writes anything)
validateTradeWith(risk, signal, currentEquity, dailyLossExceeded, hasOpenPosition) ==
    IF signal.direction = "NO_TRADE" THEN Reject("No trade signal generated")
    ELSE IF Falsy(signal.stopLoss) \/ Falsy(signal.entryMax)
         THEN Reject("Missing stop-loss or entry price")
    ELSE IF ~Falsy(signal.maxRiskPercent) /\ JsGT(signal.maxRiskPercent, Num(MaxRiskCeiling))
         THEN Reject("Risk exceeds maximum 5%")
    ELSE IF dailyLossExceeded
         THEN Reject(DailyLimitReason)
    ELSE IF hasOpenPosition THEN Reject("Already have an open position")
    ELSE LET positionSize ==
                 positionSizeWith(risk, currentEquity, signal.entryMax, signal.stopLoss)
             notionalValue == JsMul(positionSize, signal.entryMax)
         IN  IF JsLT(notionalValue, Num(MinNotional))
             THEN Reject("Position size too small")
             ELSE IF JsGT(notionalValue, JsMul(currentEquity, Pct(50)))
             THEN Reject("Position size exceeds 50% of equity")
             ELSE [valid |-> TRUE, reason |-> "", positionSize |-> positionSize]

\* validateTrade of the service constructed with the default RISK_PER_TRADE
validateTrade(signal, currentEquity, dailyLossExceeded, hasOpenPosition) ==
    validateTradeWith(riskPerTrade, signal, currentEquity, dailyLossExceeded,
                      hasOpenPosition)

(***************************************************************************)
(* StrategyService: the levels of a directional signal, and the exit check *)
(***************************************************************************)
NoTradeSignal(symbol) ==
    [symbol |-> symbol, direction |-> "NO_TRADE", entryMin |-> Undefined,
     entryMax |-> Undefined, stopLoss |-> Undefined, takeProfit1 |-> Undefined,
     maxRiskPercent |-> Undefined]

\* a LONG signal whose target is one stop distance above the price
MutCreateLongSignal(symbol, currentPrice) ==
    LET stopLoss == JsMul(currentPrice, Pct(95))
        riskAmount == JsSub(currentPrice, stopLoss)
    IN  [symbol |-> symbol, direction |-> "LONG",
         entryMin |-> JsMul(currentPrice, Milli(998)),
         entryMax |-> JsMul(currentPrice, Milli(1002)),
         stopLoss |-> stopLoss,
         takeProfit1 |-> JsAdd(currentPrice, riskAmount),
         maxRiskPercent |-> Num(5)]

createLongSignal(symbol, currentPrice) ==
    LET stopLoss == JsMul(currentPrice, Pct(95))
        riskAmount == JsSub(currentPrice, stopLoss)
    IN  [symbol |-> symbol, direction |-> "LONG",
         entryMin |-> JsMul(currentPrice, Milli(998)),
         entryMax |-> JsMul(currentPrice, Milli(1002)),
         stopLoss |-> stopLoss,
         takeProfit1 |-> JsAdd(currentPrice, JsMul(riskAmount, Num(2))),
         maxRiskPercent |-> Num(5)]

\* a SHORT signal whose stop is 1% above the price
MutCreateShortSignal(symbol, currentPrice) ==
    LET stopLoss == JsMul(currentPrice, Pct(101))
        riskAmount == JsSub(stopLoss, currentPrice)
    IN  [symbol |-> symbol, direction |-> "SHORT",
         entryMin |-> JsMul(currentPrice, Milli(1002)),
         entryMax |-> JsMul(currentPrice, Milli(998)),
         stopLoss |-> stopLoss,
         takeProfit1 |-> JsSub(currentPrice, JsMul(riskAmount, Num(2))),
         maxRiskPercent |-> Num(5)]

createShortSignal(symbol, currentPrice) ==
    LET stopLoss == JsMul(currentPrice, Pct(105))
        riskAmount == JsSub(stopLoss, currentPrice)
    IN  [symbol |-> symbol, direction |-> "SHORT",
         entryMin |-> JsMul(currentPrice, Milli(1002)),
         entryMax |-> JsMul(currentPrice, Milli(998)),
         stopLoss |-> stopLoss,
         takeProfit1 |-> JsSub(currentPrice, JsMul(riskAmount, Num(2))),
         maxRiskPercent |-> Num(5)]

\* What generateSignal reads from klines of bars closes: the last element of each
\* indicator array (the last two for the EMAs and the MACD histogram).  v holds the
\* values where the series is long enough for them.  calculateEMA(period) and
\* calculateSMA(period) return [] below period closes and otherwise an array as
\* long as the closes with holes before index period - 1; calculateRSI needs 15
\* closes; the MACD signal line is the EMA(9) of the MACD values, which start at
\* close 26, so the histogram is [] below 34 closes, and at 34 closes its last but
\* one element is a number minus a hole of the signal line
Indicators(bars, v) ==
    [currentPrice |-> IF bars >= 1 THEN v.currentPrice ELSE Undefined,
     currEMA20 |-> IF bars >= 20 THEN v.currEMA20 ELSE Undefined,
     prevEMA20 |-> IF bars >= 21 THEN v.prevEMA20 ELSE Undefined,
     currEMA50 |-> IF bars >= 50 THEN v.currEMA50 ELSE Undefined,
     prevEMA50 |-> IF bars >= 51 THEN v.prevEMA50 ELSE Undefined,
     currRSI |-> IF bars >= 15 THEN v.currRSI ELSE Undefined,
     currLowerBB |-> IF bars >= 20 THEN v.currLowerBB ELSE Undefined,
     currUpperBB |-> IF bars >= 20 THEN v.currUpperBB ELSE Undefined,
     currHist |-> IF bars >= 34 THEN v.currHist ELSE Undefined,
     prevHist |-> IF bars >= 35 THEN v.prevHist
                  ELSE IF bars = 34 THEN NaN ELSE Undefined]

\* the crossover strategy without its RSI filter
MutCrossoverStrategy(ind) ==
    IF JsLE(ind.prevEMA20, ind.prevEMA50) /\ JsGT(ind.currEMA20, ind.currEMA50)
    THEN "LONG"
    ELSE IF JsGE(ind.prevEMA20, ind.prevEMA50) /\ JsLT(ind.currEMA20, ind.currEMA50)
    THEN "SHORT"
    ELSE "NO_TRADE"

\* Strategy 1 of generateSignal: the direction it returns with, or NO_TRADE when
\* it falls through
crossoverStrategy(ind) ==
    LET bullishCross ==
            JsLE(ind.prevEMA20, ind.prevEMA50) /\ JsGT(ind.currEMA20, ind.currEMA50)
        bearishCross ==
            JsGE(ind.prevEMA20, ind.prevEMA50) /\ JsLT(ind.currEMA20, ind.currEMA50)
    IN  IF bullishCross /\ JsGT(ind.currRSI, Num(45)) /\ JsLT(ind.currRSI, Num(70))
        THEN "LONG"
        ELSE IF bearishCross /\ JsLT(ind.currRSI, Num(55)) /\ JsGT(ind.currRSI, Num(30))
        THEN "SHORT"
        ELSE "NO_TRADE"

\* Strategy 2
bollingerStrategy(ind) ==
    IF JsLE(ind.currentPrice, ind.currLowerBB) /\ JsLT(ind.currRSI, Num(35))
    THEN "LONG"
    ELSE IF JsGE(ind.currentPrice, ind.currUpperBB) /\ JsGT(ind.currRSI, Num(65))
    THEN "SHORT"
    ELSE "NO_TRADE"

\* Strategy 3
macdStrategy(ind) ==
    IF JsLT(ind.prevHist, Num(0)) /\ JsGT(ind.currHist, Num(0))
          /\ JsGT(ind.currRSI, Num(50))
    THEN "LONG"
    ELSE IF JsGT(ind.prevHist, Num(0)) /\ JsLT(ind.currHist, Num(0))
               /\ JsLT(ind.currRSI, Num(50))
    THEN "SHORT"
    ELSE "NO_TRADE"

\* what a call of generateSignal comes to: the signal it returns with the first
\* line of its rationale (kept beside the signal), or the TypeError it throws
Returned(symbol, direction, currentPrice, rationale) ==
    [threw |-> FALSE,
     signal |-> IF direction = "LONG" THEN createLongSignal(symbol, currentPrice)
                ELSE IF direction = "SHORT" THEN createShortSignal(symbol, currentPrice)
                ELSE NoTradeSignal(symbol),
     rationale |-> rationale]

Thrown == [threw |-> TRUE, error |-> "TypeError"]

CrossoverRationale == "Strategy: EMA Crossover Detected (20/50)"
BollingerRationale == "Strategy: Bollinger Bands Mean Reversion"
MacdRationale == "Strategy: MACD Histogram Crossover"
NoSignalRationale == "No strong signal"

\* the Bollinger strategy tried before the crossover strategy
MutGenerateSignal(symbol, ind) ==
    IF bollingerStrategy(ind) # "NO_TRADE"
    THEN Returned(symbol, bollingerStrategy(ind), ind.currentPrice, BollingerRationale)
    ELSE IF crossoverStrategy(ind) # "NO_TRADE"
    THEN Returned(symbol, crossoverStrategy(ind), ind.currentPrice, CrossoverRationale)
    ELSE IF macdStrategy(ind) # "NO_TRADE"
    THEN Returned(symbol, macdStrategy(ind), ind.currentPrice, MacdRationale)
    ELSE IF ind.currRSI = Undefined
    THEN Thrown
    ELSE Returned(symbol, "NO_TRADE", ind.currentPrice, NoSignalRationale)

\* generateSignal: the first strategy whose condition holds returns; the default
\* branch formats currRSI with toFixed, which throws when currRSI is undefined
generateSignal(symbol, ind) ==
    IF crossoverStrategy(ind) # "NO_TRADE"
    THEN Returned(symbol, crossoverStrategy(ind), ind.currentPrice, CrossoverRationale)
    ELSE IF bollingerStrategy(ind) # "NO_TRADE"
    THEN Returned(symbol, bollingerStrategy(ind), ind.currentPrice, BollingerRationale)
    ELSE IF macdStrategy(ind) # "NO_TRADE"
    THEN Returned(symbol, macdStrategy(ind), ind.currentPrice, MacdRationale)
    ELSE IF ind.currRSI = Undefined
    THEN Thrown
    ELSE Returned(symbol, "NO_TRADE", ind.currentPrice, NoSignalRationale)

\* the exit check of the earlier engine (part_005, line 516): no direction, LONG rules
MutShouldExitPosition(entryPrice, currentPrice, stopLoss, takeProfit, ema, direction) ==
    IF JsLE(currentPrice, stopLoss)
    THEN [shouldExit |-> TRUE, reason |-> "Stop-loss triggered"]
    ELSE IF JsGE(currentPrice, takeProfit)
    THEN [shouldExit |-> TRUE, reason |-> "Take-profit target reached"]
    ELSE IF JsGE(ema.prevShort, ema.prevLong) /\ JsLT(ema.curShort, ema.curLong)
    THEN [shouldExit |-> TRUE, reason |-> "Trend reversal detected (bearish crossover)"]
    ELSE [shouldExit |-> FALSE, reason |-> ""]

\* the take-profit rules checked before the stop-loss rules
MutExitPriority(entryPrice, currentPrice, stopLoss, takeProfit, ema, direction) ==
    IF direction = "LONG" /\ JsGE(currentPrice, takeProfit)
    THEN [shouldExit |-> TRUE, reason |-> "Take-profit target reached"]
    ELSE IF direction = "SHORT" /\ JsLE(currentPrice, takeProfit)
    THEN [shouldExit |-> TRUE, reason |-> "Take-profit target reached"]
    ELSE IF direction = "LONG" /\ JsLE(currentPrice, stopLoss)
    THEN [shouldExit |-> TRUE, reason |-> "Stop-loss triggered"]
    ELSE IF direction = "SHORT" /\ JsGE(currentPrice, stopLoss)
    THEN [shouldExit |-> TRUE, reason |-> "Stop-loss triggered"]
    ELSE IF direction = "LONG" /\ JsGE(ema.prevShort, ema.prevLong)
                               /\ JsLT(ema.curShort, ema.curLong)
    THEN [shouldExit |-> TRUE, reason |-> "Trend reversal detected (bearish crossover)"]
    ELSE IF direction = "SHORT" /\ JsLE(ema.prevShort, ema.prevLong)
                                /\ JsGT(ema.curShort, ema.curLong)
    THEN [shouldExit |-> TRUE, reason |-> "Trend reversal detected (bullish crossover)"]
    ELSE [shouldExit |-> FALSE, reason |-> ""]

\* ema holds the last two values of EMA(maShort) and EMA(maLong) of the closes
\* (Undefined where the series is too short); direction is compared as passed
shouldExitPosition(entryPrice, currentPrice, stopLoss, takeProfit, ema, direction) ==
    LET bearishCrossover ==
            JsGE(ema.prevShort, ema.prevLong) /\ JsLT(ema.curShort, ema.curLong)
        bullishCrossover ==
            JsLE(ema.prevShort, ema.prevLong) /\ JsGT(ema.curShort, ema.curLong)
    IN  IF direction = "LONG" /\ JsLE(currentPrice, stopLoss)
        THEN [shouldExit |-> TRUE, reason |-> "Stop-loss triggered"]
        ELSE IF direction = "SHORT" /\ JsGE(currentPrice, stopLoss)
        THEN [shouldExit |-> TRUE, reason |-> "Stop-loss triggered"]
        ELSE IF direction = "LONG" /\ JsGE(currentPrice, takeProfit)
        THEN [shouldExit |-> TRUE, reason |-> "Take-profit target reached"]
        ELSE IF direction = "SHORT" /\ JsLE(currentPrice, takeProfit)
        THEN [shouldExit |-> TRUE, reason |-> "Take-profit target reached"]
        ELSE IF direction = "LONG" /\ bearishCrossover
        THEN [shouldExit |-> TRUE, reason |-> "Trend reversal detected (bearish crossover)"]
        ELSE IF direction = "SHORT" /\ bullishCrossover
        THEN [shouldExit |-> TRUE, reason |-> "Trend reversal detected (bullish crossover)"]
        ELSE [shouldExit |-> FALSE, reason |-> ""]

(***************************************************************************)
(* The Trade records of the store                                          *)
(***************************************************************************)
\* Trade.create of saveTrade.  g_equity, g_entryMax and g_closingOrders are
\* history fields, not columns: the equity and the entry reference validateTrade
\* sized the trade with, and the closing market orders placed for the trade.
NewTrade(symbol, side, entryPrice, quantity, stopLoss, takeProfit, equity, entryMax) ==
    [symbol |-> symbol, side |-> side, entry_price |-> entryPrice,
     quantity |-> quantity, stop_loss |-> stopLoss, take_profit |-> takeProfit,
     status |-> "OPEN", exit_price |-> Undefined, realized_pnl |-> Undefined,
     realized_pnl_percent |-> Undefined, closed_at |-> -1,
     g_equity |-> equity, g_entryMax |-> entryMax, g_closingOrders |-> 0]

\* the Trade.update of closePosition: the record as it is after the write
closePosition(trade, exitPrice, today) ==
    LET realizedPnl == JsMul(JsSub(exitPrice, trade.entry_price), trade.quantity)
        realizedPnlPercent ==
            JsMul(JsDiv(JsSub(exitPrice, trade.entry_price), trade.entry_price), Num(100))
    IN  [trade EXCEPT !.status = "CLOSED", !.exit_price = exitPrice,
                      !.realized_pnl = realizedPnl,
                      !.realized_pnl_percent = realizedPnlPercent,
                      !.closed_at = today]

\* a call of TradingService.closePosition: the market order (orderOk: it did not
\* throw), then the P&L, then Trade.update (writeOk); the catch block swallows the
\* throw of either, and nothing before the order looks at the trade's status
closePositionCall(trade, exitPrice, today, orderOk, writeOk) ==
    IF ~orderOk THEN trade
    ELSE IF ~writeOk
    THEN [trade EXCEPT !.g_closingOrders = @ + 1]
    ELSE [closePosition(trade, exitPrice, today) EXCEPT !.g_closingOrders = @ + 1]

RECURSIVE SumPnl(_, _)
\* dailyTrades.reduce((sum, t) => sum + (t.realized_pnl || 0), 0) over the trades
\* CLOSED with closed_at >= today
SumPnl(store, today) ==
    IF store = <<>> THEN Num(0)
    ELSE LET t == Head(store)
             counted == t.status = "CLOSED" /\ t.closed_at >= today
             pnl == IF Falsy(t.realized_pnl) THEN Num(0) ELSE t.realized_pnl
         IN  IF counted THEN JsAdd(pnl, SumPnl(Tail(store), today))
             ELSE SumPnl(Tail(store), today)

\* readOk: whether Trade.list answered; the catch block answers false
checkDailyLossLimit(store, today, readOk) ==
    IF readOk
    THEN LET dailyPnl == SumPnl(store, today)
             maxLoss == JsMul(initialCapital, maxDailyLoss)
         IN  JsLT(dailyPnl, JsNeg(maxLoss))
    ELSE FALSE

hasOpenPosition(store, symbol, readOk) ==
    IF readOk
    THEN \E i \in 1..Len(store) : store[i].symbol = symbol /\ store[i].status = "OPEN"
    ELSE FALSE

\* Trade.list({filter: {status: {eq: 'OPEN'}}}): the ids, in store order
RECURSIVE OpenIds(_, _)
OpenIds(store, i) ==
    IF i > Len(store) THEN <<>>
    ELSE IF store[i].status = "OPEN" THEN <<i>> \o OpenIds(store, i + 1)
    ELSE OpenIds(store, i + 1)

(***************************************************************************)
(* Bounds and inputs of the model                                          *)
(***************************************************************************)
MaxTrades == 2
MaxCycles == 2
MaxDay == 1
MaxTimers == 2
MaxClosingOrders == 2

\* the first two entries of TradingService.symbols
symbols == <<"BTCUSDT", "ETHUSDT">>

\* what getUSDTBalance can answer, the last close of the klines, the ticker price
Equities == {Num(26)}
ClosePrices == {Num(1000)}
TickerPrices == {Num(950), Num(1000)}
\* last two values of EMA20 and EMA50 of the fetched closes
EmaInputs ==
    {[prevShort |-> Num(10), prevLong |-> Num(9), curShort |-> Num(9), curLong |-> Num(10)],
     [prevShort |-> Num(9), prevLong |-> Num(10), curShort |-> Num(10), curLong |-> Num(9)]}

\* Records another writer of the shared store left behind: one position of
\* quantity 0.1 entered at 1000 and closed at exitPrice on day closedDay
ClosedEarlier(exitPrice, closedDay) ==
    closePosition(
        NewTrade("BTCUSDT", "BUY", Num(1000), Rat(1, 10), Num(950), Num(1100),
                 Num(250), Num(1000)),
        exitPrice, closedDay)

InitialStores ==
    {<<>>, <<ClosedEarlier(Num(890), 0)>>}

(***************************************************************************)
(* State                                                                   *)
(***************************************************************************)
VARIABLES
    trades,      \* the Trade model of the store, in creation order (index = id)
    day,         \* the local calendar day
    isRunning,   \* TradingService.isRunning
    intervalId,  \* TradingService.intervalId is set
    timers,      \* interval timers installed and not cleared
    startPc,     \* where the start() call in progress is: idle, connecting, firstCycle
    cycles,      \* the runTradingCycle calls in progress, by slot
    tripped,     \* history: validateTrade rejected for the daily loss today
    harness,     \* a call that is watched, and what it returned
    dailyTrades, \* the module-level dailyTrades array of the lambda TradingService
    tradingConfig,          \* the TradingConfig record 'main' of the store
    executions,             \* the fast-loop executions started, by arn: their status
    detached,               \* promises a handler left running when it responded
    stopResponded,          \* history: stop has responded and no start has since
    FAST_STATE_MACHINE_ARN  \* process.env.FAST_STATE_MACHINE_ARN is set

\* the state of the API function and of the scheduled runner
apiVars ==
    <<tradingConfig, executions, detached, stopResponded, FAST_STATE_MACHINE_ARN>>

vars ==
    <<trades, day, isRunning, intervalId, timers, startPc, cycles, tripped, harness,
      dailyTrades, apiVars>>

\* no TradingConfig record with id 'main' in the store
NoConfig == [exists |-> FALSE]

\* the API function before any request: nothing stored, nothing started
NoRequestYet ==
    /\ tradingConfig = NoConfig
    /\ executions = <<>>
    /\ detached = [get |-> 0, update |-> 0]
    /\ stopResponded = FALSE
    /\ FAST_STATE_MACHINE_ARN = FALSE

Slots == 1..MaxCycles

IdleCycle ==
    [pc |-> "idle", first |-> FALSE, equity |-> Num(0), todo |-> <<>>, sym |-> 0,
     signal |-> NoTradeSignal(""), positionSize |-> Undefined]

NoCall == [fn |-> "none"]

Init ==
    /\ trades \in InitialStores
    /\ day = 0
    /\ isRunning = FALSE
    /\ intervalId = FALSE
    /\ timers = 0
    /\ startPc = "idle"
    /\ cycles = [c \in Slots |-> IdleCycle]
    /\ tripped = FALSE
    /\ harness = NoCall
    /\ dailyTrades = <<>>
    /\ NoRequestYet

InProgress(c) == cycles[c].pc # "idle"

\* the slot a new runTradingCycle call takes: the lowest one not in progress
FreeSlot(c) == ~InProgress(c) /\ \A b \in Slots : b < c => InProgress(b)

(***************************************************************************)
(* TradingService.start and stop                                           *)
(***************************************************************************)
\* start() up to its first await: the isRunning guard
start ==
    /\ startPc = "idle"
    /\ ~isRunning
    /\ isRunning' = TRUE
    /\ startPc' = "connecting"
    /\ UNCHANGED <<apiVars, dailyTrades, trades, day, intervalId, timers, cycles, tripped, harness>>

\* the cycle starting with the symbol scan, before the open positions are managed
MutBeginCycle(c, first, balanceOk, equity) ==
    cycles' = [cycles EXCEPT ![c] =
                  IF balanceOk
                  THEN [IdleCycle EXCEPT !.pc = "scan", !.first = first,
                                         !.equity = equity, !.sym = 1]
                  ELSE [IdleCycle EXCEPT !.pc = "done", !.first = first]]

\* runTradingCycle up to manageOpenPositions: getUSDTBalance answers (or throws,
\* which ends the cycle in the catch block) and the snapshot is saved
BeginCycle(c, first, balanceOk, equity) ==
    cycles' = [cycles EXCEPT ![c] =
                  IF balanceOk
                  THEN [IdleCycle EXCEPT !.pc = "list", !.first = first, !.equity = equity]
                  ELSE [IdleCycle EXCEPT !.pc = "done", !.first = first]]

\* testConnectivity answered: start() gives up, or awaits the first cycle
startConnected ==
    /\ startPc = "connecting"
    /\ \/ /\ isRunning' = FALSE
          /\ startPc' = "idle"
          /\ UNCHANGED cycles
       \/ /\ \E c \in Slots, balanceOk \in BOOLEAN, equity \in Equities :
                /\ FreeSlot(c)
                /\ BeginCycle(c, TRUE, balanceOk, equity)
          /\ startPc' = "firstCycle"
          /\ UNCHANGED isRunning
    /\ UNCHANGED <<apiVars, dailyTrades, trades, day, intervalId, timers, tripped, harness>>

stop ==
    /\ isRunning \/ intervalId
    /\ timers' = IF intervalId THEN timers - 1 ELSE timers
    /\ intervalId' = FALSE
    /\ isRunning' = FALSE
    /\ UNCHANGED <<apiVars, dailyTrades, trades, day, startPc, cycles, tripped, harness>>

\* a tick of an installed interval timer: () => this.runTradingCycle()
TimerTick ==
    /\ timers > 0
    /\ \E c \in Slots, balanceOk \in BOOLEAN, equity \in Equities :
          /\ FreeSlot(c)
          /\ BeginCycle(c, FALSE, balanceOk, equity)
    /\ UNCHANGED <<apiVars, dailyTrades, trades, day, isRunning, intervalId, timers, startPc, tripped, harness>>

\* the cycle returned and its slot is given up (the calls still in progress keep
\* the lowest slots); the one start() awaited is followed by setInterval
EndCycle(c) ==
    /\ cycles[c].pc = "done"
    /\ cycles' = [b \in Slots |->
                      IF b < c THEN cycles[b]
                      ELSE IF b < MaxCycles THEN cycles[b + 1] ELSE IdleCycle]
    /\ IF cycles[c].first
       THEN /\ timers < MaxTimers
            /\ timers' = timers + 1
            /\ intervalId' = TRUE
            /\ startPc' = "idle"
       ELSE UNCHANGED <<timers, intervalId, startPc>>
    /\ UNCHANGED <<apiVars, dailyTrades, trades, day, isRunning, tripped, harness>>

(***************************************************************************)
(* TradingService.runTradingCycle, one await-separated step per action     *)
(***************************************************************************)
\* the cycle after manageOpenPositions handled (or gave up on) its list
AfterManage(cy, rest) ==
    IF rest = <<>>
    THEN [cy EXCEPT !.pc = "scan", !.todo = <<>>, !.sym = 1]
    ELSE [cy EXCEPT !.pc = "manage", !.todo = rest]

\* the for-loop of runTradingCycle moves to the next symbol, or the cycle ends
NextSymbol(cy) ==
    IF cy.sym < Len(symbols)
    THEN [cy EXCEPT !.pc = "scan", !.sym = cy.sym + 1,
                    !.signal = NoTradeSignal(""), !.positionSize = Undefined]
    ELSE [IdleCycle EXCEPT !.pc = "done", !.first = cy.first]

\* manageOpenPositions: Trade.list of the OPEN trades; a throw is caught at the
\* end of the function and the cycle goes on with the scan
manageOpenPositions(c) ==
    /\ cycles[c].pc = "list"
    /\ \E readOk \in BOOLEAN :
          cycles' = [cycles EXCEPT ![c] =
                        AfterManage(@, IF readOk THEN OpenIds(trades, 1) ELSE <<>>)]
    /\ UNCHANGED <<apiVars, dailyTrades, trades, day, isRunning, intervalId, timers, startPc, tripped, harness>>

\* one iteration of the loop of manageOpenPositions: price and klines are fetched
\* (a throw leaves the loop: the try block encloses it), the exit check runs with
\* trade.side as direction, and closePosition is called if it says so.  watch: the
\* step's call of shouldExitPosition is recorded in harness.
manageTradeStep(c, watch) ==
    /\ cycles[c].pc = "manage"
    /\ cycles[c].todo # <<>>
    /\ LET id == Head(cycles[c].todo)
           trade == trades[id]
       IN  \/ /\ cycles' = [cycles EXCEPT ![c] = AfterManage(@, <<>>)]
              /\ UNCHANGED trades
              /\ harness' = IF watch THEN NoCall ELSE harness
           \/ \E currentPrice \in TickerPrices, ema \in EmaInputs :
                 LET exitCheck ==
                         shouldExitPosition(trade.entry_price, currentPrice,
                                            trade.stop_loss, trade.take_profit, ema,
                                            trade.side)
                     Outcomes == IF exitCheck.shouldExit THEN BOOLEAN ELSE {FALSE}
                 IN  /\ exitCheck.shouldExit => trade.g_closingOrders < MaxClosingOrders
                     /\ cycles' = [cycles EXCEPT ![c] = AfterManage(@, Tail(@.todo))]
                     /\ \E orderOk \in Outcomes, writeOk \in Outcomes :
                           /\ trades' =
                                 IF exitCheck.shouldExit
                                 THEN [trades EXCEPT
                                          ![id] = closePositionCall(trade, currentPrice,
                                                                    day, orderOk, writeOk)]
                                 ELSE trades
                           /\ harness' =
                                 IF watch
                                 THEN [fn |-> "exitCheck", id |-> id,
                                       trade |-> trade, currentPrice |-> currentPrice,
                                       result |-> exitCheck,
                                       closeFailed |-> exitCheck.shouldExit
                                                          /\ ~(orderOk /\ writeOk)]
                                 ELSE harness
    /\ UNCHANGED <<apiVars, dailyTrades, day, isRunning, intervalId, timers, startPc, tripped>>

manageTrade(c) == manageTradeStep(c, FALSE)

\* the throw of getKlines or generateSignal leaving the for-loop of the cycle
MutSkipSymbolStep(c, watch) ==
    /\ cycles[c].pc = "scan"
    /\ cycles' = [cycles EXCEPT ![c] = [IdleCycle EXCEPT !.pc = "done",
                                                       !.first = cycles[c].first]]
    /\ harness' = IF watch
                  THEN [fn |-> "evaluateSymbolThrew", symbol |-> symbols[cycles[c].sym]]
                  ELSE harness
    /\ UNCHANGED <<apiVars, dailyTrades, trades, day, isRunning, intervalId, timers, startPc, tripped>>

\* evaluateSymbol ended in its catch block before a signal was there: getKlines or
\* generateSignal threw, the error is logged and the call returns normally
skipSymbolStep(c, watch) ==
    /\ cycles[c].pc = "scan"
    /\ cycles' = [cycles EXCEPT ![c] = NextSymbol(@)]
    /\ harness' = IF watch
                  THEN [fn |-> "evaluateSymbolThrew", symbol |-> symbols[cycles[c].sym]]
                  ELSE harness
    /\ UNCHANGED <<apiVars, dailyTrades, trades, day, isRunning, intervalId, timers, startPc, tripped>>

skipSymbol(c) == skipSymbolStep(c, FALSE)

\* what generateSignal can return for klines whose last close is in ClosePrices
GeneratedSignals(symbol) ==
    {NoTradeSignal(symbol)}
    \cup {createLongSignal(symbol, close) : close \in ClosePrices}
    \cup {createShortSignal(symbol, close) : close \in ClosePrices}

\* how a call of analyzeSignal goes: GEMINI_API_KEY is not set, the request or
\* the parsing of its answer throws, or the answer is parsed
AdvisoryOutcomes == {"disabled", "failed", "answered"}

\* the confidence field of a parsed answer
AnsweredConfidences == {Num(74), Num(75)}

\* analyzeSignal: 100 without an API key, 50 from its catch block, else the
\* confidence of the parsed answer
analyzeSignal(outcome, answered) ==
    IF outcome = "disabled" THEN Num(100)
    ELSE IF outcome = "failed" THEN Num(50)
    ELSE answered

Has(seq, x) == \E k \in 1..Len(seq) : seq[k] = x

\* validateTrade called whatever the direction of the signal
MutCallsUnguarded(signal, aiConfidence) ==
    <<"analyzeSignal", "saveSignal">>
    \o (IF aiConfidence # Undefined /\ JsLT(aiConfidence, Num(75))
        THEN <<>>
        ELSE <<"validateTrade">>)

\* the signal saved only once it passed the confidence threshold
MutCallsSaveLate(signal, aiConfidence) ==
    IF signal.direction # "NO_TRADE"
    THEN <<"analyzeSignal">>
         \o (IF aiConfidence # Undefined /\ JsLT(aiConfidence, Num(75))
             THEN <<>>
             ELSE <<"saveSignal", "validateTrade">>)
    ELSE <<>>

\* the calls evaluateSymbol makes with the signal generateSignal returned, in order
evaluateSymbolCalls(signal, aiConfidence) ==
    IF signal.direction # "NO_TRADE"
    THEN <<"analyzeSignal", "saveSignal">>
         \o (IF aiConfidence # Undefined /\ JsLT(aiConfidence, Num(75))
             THEN <<>>
             ELSE <<"validateTrade">>)
    ELSE <<>>

\* a position too small for the exchange executed all the same
MutTradeAccepted(validation) ==
    validation.valid \/ validation.reason = "Position size too small"

\* if (validation.valid && validation.positionSize): executeTrade is called
tradeAccepted(validation) == validation.valid /\ ~Falsy(validation.positionSize)

NoValidation == [valid |-> FALSE, reason |-> "not called", positionSize |-> Undefined]

\* evaluateSymbol from the signal generateSignal returned up to the return of
\* validateTrade.  saveOk: Signal.create answered (saveSignal catches its throw,
\* so the outcome shows only in the record of a watched step and is drawn there);
\* dailyReadOk, openReadOk: the Trade.list of each helper of validateTrade answered.
\* A rejection is logged and the loop moves on; an accepted signal is next handed
\* to executeTrade.  watch: the step is recorded in harness.
evaluateSymbolStep(c, watch) ==
    /\ cycles[c].pc = "scan"
    /\ LET cy == cycles[c]
           symbol == symbols[cy.sym]
       IN  \E signal \in GeneratedSignals(symbol), advisory \in AdvisoryOutcomes :
              \E answered \in (IF advisory = "answered"
                               THEN AnsweredConfidences ELSE {Undefined}) :
              \E aiConfidence \in {analyzeSignal(advisory, answered)} :
              \E calls \in {evaluateSymbolCalls(signal, aiConfidence)} :
              \E saveOk \in (IF watch /\ Has(calls, "saveSignal")
                             THEN BOOLEAN ELSE {FALSE}),
                 dailyReadOk \in (IF Has(calls, "validateTrade") THEN BOOLEAN ELSE {FALSE}),
                 openReadOk \in (IF Has(calls, "validateTrade") THEN BOOLEAN ELSE {FALSE}) :
              \E validation \in
                    {IF Has(calls, "validateTrade")
                     THEN validateTrade(signal, cy.equity,
                                        checkDailyLossLimit(trades, day, dailyReadOk),
                                        hasOpenPosition(trades, symbol, openReadOk))
                     ELSE NoValidation} :
                  /\ cycles' = [cycles EXCEPT ![c] =
                         IF tradeAccepted(validation)
                         THEN [cy EXCEPT !.pc = "exec", !.signal = signal,
                                         !.positionSize = validation.positionSize]
                         ELSE NextSymbol(cy)]
                  /\ tripped' =
                        (tripped \/ validation.reason = DailyLimitReason)
                  /\ harness' =
                        IF watch
                        THEN [fn |-> "evaluateSymbol", signal |-> signal,
                              advisory |-> advisory,
                              aiConfidence |-> aiConfidence, calls |-> calls,
                              created |-> IF saveOk THEN <<signal>> ELSE <<>>,
                              saveFailed |-> Has(calls, "saveSignal") /\ ~saveOk,
                              dailyReadOk |-> dailyReadOk, openReadOk |-> openReadOk,
                              validation |-> validation]
                        ELSE harness
    /\ UNCHANGED <<apiVars, dailyTrades, trades, day, isRunning, intervalId, timers, startPc>>

evaluateSymbol(c) == evaluateSymbolStep(c, FALSE)

\* the trade saved before the market order is placed
MutCallsSaveFirst(priceOk, orderOk, writeOk) ==
    <<"getCurrentPrice">>
    \o (IF priceOk THEN <<"saveTrade">> ELSE <<>>)
    \o (IF priceOk /\ writeOk THEN <<"placeMarketOrder">> ELSE <<>>)
    \o (IF priceOk /\ writeOk /\ orderOk THEN <<"placeStopLossOrder">> ELSE <<>>)

\* the calls executeTrade makes, in order: each is awaited inside one try block,
\* so the first that throws (priceOk, orderOk, writeOk: it did not) ends the list
executeTradeCalls(priceOk, orderOk, writeOk) ==
    <<"getCurrentPrice">>
    \o (IF priceOk THEN <<"placeMarketOrder">> ELSE <<>>)
    \o (IF priceOk /\ orderOk THEN <<"saveTrade">> ELSE <<>>)
    \o (IF priceOk /\ orderOk /\ writeOk THEN <<"placeStopLossOrder">> ELSE <<>>)

\* the side executeTrade gives its market order and its record: the literal
\* 'BUY', whatever signal.direction is
EntrySide(signal) == "BUY"

\* executeTrade: getCurrentPrice, the market order, Trade.create, then the
\* stop-loss order; a throw of any of them is caught and logged, and the record
\* exists iff saveTrade was called and its write succeeded.  watch: the call is
\* recorded in harness.
executeTradeStep(c, watch) ==
    /\ cycles[c].pc = "exec"
    /\ LET cy == cycles[c]
           signal == cy.signal
       IN  /\ \E priceOk \in BOOLEAN :
              \E currentPrice \in (IF priceOk THEN TickerPrices ELSE {Undefined}),
                 orderOk \in (IF priceOk THEN BOOLEAN ELSE {FALSE}),
                 writeOk \in (IF priceOk THEN BOOLEAN ELSE {FALSE}) :
              \E calls \in {executeTradeCalls(priceOk, orderOk, writeOk)} :
              \E created \in {Has(calls, "saveTrade") /\ writeOk} :
                 /\ created => Len(OpenIds(trades, 1)) < MaxTrades
                 /\ trades' =
                       IF created
                       THEN Append(trades,
                                   NewTrade(signal.symbol, EntrySide(signal),
                                            currentPrice,
                                            cy.positionSize, signal.stopLoss,
                                            signal.takeProfit1, cy.equity,
                                            signal.entryMax))
                       ELSE trades
                 /\ harness' =
                       IF watch
                       THEN [fn |-> "executeTrade", signal |-> signal,
                             positionSize |-> cy.positionSize, calls |-> calls,
                             entrySide |-> EntrySide(signal),
                             orderOk |-> orderOk, writeOk |-> writeOk,
                             before |-> Len(trades)]
                       ELSE harness
           /\ cycles' = [cycles EXCEPT ![c] = NextSymbol(cy)]
    /\ UNCHANGED <<apiVars, dailyTrades, day, isRunning, intervalId, timers, startPc, tripped>>

executeTrade(c) == executeTradeStep(c, FALSE)

\* local midnight passes
Midnight ==
    /\ day < MaxDay
    /\ day' = day + 1
    /\ tripped' = FALSE
    /\ UNCHANGED <<apiVars, dailyTrades, trades, isRunning, intervalId, timers, startPc, cycles, harness>>

Next ==
    \/ start
    \/ startConnected
    \/ stop
    \/ TimerTick
    \/ Midnight
    \/ \E c \in Slots : EndCycle(c)
    \/ \E c \in Slots : manageOpenPositions(c)
    \/ \E c \in Slots : manageTrade(c)
    \/ \E c \in Slots : skipSymbol(c)
    \/ \E c \in Slots : evaluateSymbol(c)
    \/ \E c \in Slots : executeTrade(c)

Spec == Init /\ [][Next]_vars

(***************************************************************************)
(* RiskService called directly, as testRisk does: the store is whatever it *)
(* is at the time of the call, and nothing but the call's record changes   *)
(***************************************************************************)
OpenEarlier(symbol) ==
    NewTrade(symbol, "BUY", Num(1000), Rat(1, 10), Num(950), Num(1100),
             Num(250), Num(1000))

RiskStores ==
    {<<>>,
     <<ClosedEarlier(Num(890), 0)>>,
     <<ClosedEarlier(Num(900), 0)>>,
     <<ClosedEarlier(Num(890), -1)>>,
     <<OpenEarlier("BTCUSDT")>>,
     <<ClosedEarlier(Num(890), 0), OpenEarlier("BTCUSDT")>>}

RiskEquities == {Num(0), Num(26), Num(100), Num(400)}

\* signals as generateSignal builds them, and signals testRisk-style callers
\* build by hand: levels missing, risk above the ceiling, a stop next to the
\* entry, a stop equal to the entry
RiskSignals ==
    LET long == createLongSignal("BTCUSDT", Num(1000))
    IN  {NoTradeSignal("BTCUSDT"),
         long,
         createShortSignal("BTCUSDT", Num(1000)),
         createLongSignal("ETHUSDT", Num(1000)),
         [long EXCEPT !.stopLoss = Undefined],
         [long EXCEPT !.entryMax = Num(0)],
         [long EXCEPT !.maxRiskPercent = Num(6)],
         [long EXCEPT !.maxRiskPercent = Undefined],
         [long EXCEPT !.stopLoss = Num(1000)],
         [long EXCEPT !.stopLoss = Num(1002)]}

SizingEquities == {Num(0), Num(26), Num(100)}
SizingEntries == {Num(950), Num(1000), Num(1002), Num(50000)}
SizingStops == {Num(950), Num(1000), Num(1050), Num(47500)}

InitRisk ==
    /\ trades \in RiskStores
    /\ day = 0
    /\ isRunning = FALSE
    /\ intervalId = FALSE
    /\ timers = 0
    /\ startPc = "idle"
    /\ cycles = [c \in Slots |-> IdleCycle]
    /\ tripped = FALSE
    /\ harness = NoCall
    /\ dailyTrades = <<>>
    /\ NoRequestYet

CallCalculatePositionSize ==
    /\ \E equity \in SizingEquities, entryPrice \in SizingEntries,
          stopLoss \in SizingStops :
          harness' = [fn |-> "calculatePositionSize", equity |-> equity,
                      entryPrice |-> entryPrice, stopLoss |-> stopLoss,
                      result |-> calculatePositionSize(equity, entryPrice, stopLoss)]
    /\ UNCHANGED <<apiVars, dailyTrades, trades, day, isRunning, intervalId, timers, startPc, cycles, tripped>>

\* dailyReadOk, openReadOk: whether the Trade.list of each helper answered
CallValidateTrade ==
    /\ \E signal \in RiskSignals, currentEquity \in RiskEquities,
          dailyReadOk, openReadOk \in BOOLEAN :
          LET dailyLossExceeded == checkDailyLossLimit(trades, day, dailyReadOk)
              open == hasOpenPosition(trades, signal.symbol, openReadOk)
          IN  harness' = [fn |-> "validateTrade", signal |-> signal,
                          currentEquity |-> currentEquity,
                          dailyLossExceeded |-> dailyLossExceeded,
                          hasOpenPosition |-> open,
                          result |-> validateTrade(signal, currentEquity,
                                                   dailyLossExceeded, open)]
    /\ UNCHANGED <<apiVars, dailyTrades, trades, day, isRunning, intervalId, timers, startPc, cycles, tripped>>

\* RISK_PER_TRADE of the environment the service is constructed in: not set (the
\* default 0.02), or 0.03
RiskFractions == {riskPerTrade, Pct(3)}

\* last closes generateSignal builds its signals from, and balances above 0
GateCloses == {Num(1000), Num(50000)}
GateEquities == {Num(1), Num(26), Num(27), Num(100), Num(100000)}

\* validateTrade of a service constructed with RISK_PER_TRADE = risk, called as
\* evaluateSymbol calls it: with a signal createLongSignal or createShortSignal
\* built
CallValidateGenerated ==
    /\ \E risk \in RiskFractions, close \in GateCloses, equity \in GateEquities,
          dailyReadOk, openReadOk \in BOOLEAN :
       \E signal \in {createLongSignal("BTCUSDT", close),
                       createShortSignal("BTCUSDT", close)} :
          LET dailyLossExceeded == checkDailyLossLimit(trades, day, dailyReadOk)
              open == hasOpenPosition(trades, signal.symbol, openReadOk)
          IN  harness' = [fn |-> "validateGenerated", riskPerTrade |-> risk,
                          signal |-> signal, currentEquity |-> equity,
                          dailyLossExceeded |-> dailyLossExceeded,
                          hasOpenPosition |-> open,
                          result |-> validateTradeWith(risk, signal, equity,
                                                       dailyLossExceeded, open)]
    /\ UNCHANGED <<apiVars, dailyTrades, trades, day, isRunning, intervalId, timers, startPc, cycles, tripped>>

NextRisk ==
    \/ CallCalculatePositionSize
    \/ CallValidateTrade
    \/ CallValidateGenerated

SpecRisk == InitRisk /\ [][NextRisk]_vars

(***************************************************************************)
(* One runTradingCycle call watched step by step: a timer tick of the      *)
(* running engine began it, and each call of shouldExitPosition and each   *)
(* pass of evaluateSymbol is recorded in harness                           *)
(***************************************************************************)
\* the trade executeTrade writes for the LONG signal of close 1000 that
\* validateTrade accepted with equity 26, filled at the ticker price 1000
Executed(symbol) ==
    LET signal == createLongSignal(symbol, Num(1000))
    IN  NewTrade(symbol, "BUY", Num(1000),
                 calculatePositionSize(Num(26), signal.entryMax, signal.stopLoss),
                 signal.stopLoss, signal.takeProfit1, Num(26), signal.entryMax)

CycleStores ==
    {<<>>,
     <<Executed("BTCUSDT")>>,
     <<Executed("BTCUSDT"), Executed("ETHUSDT")>>,
     <<ClosedEarlier(Num(890), 0)>>,
     <<ClosedEarlier(Num(890), 0), Executed("ETHUSDT")>>}

\* the balance the watched cycle read: with 26 only the LONG signal of close 1000
\* has a notional of 10 or more, with 27 the SHORT one has too
CycleEquities == {Num(26), Num(27)}

InitCycle ==
    /\ trades \in CycleStores
    /\ day = 0
    /\ isRunning = TRUE
    /\ intervalId = TRUE
    /\ timers = 1
    /\ startPc = "idle"
    /\ \E equity \in CycleEquities :
          cycles = [c \in Slots |->
                       IF c = 1 THEN [IdleCycle EXCEPT !.pc = "list", !.equity = equity]
                       ELSE IdleCycle]
    /\ tripped = FALSE
    /\ harness = NoCall
    /\ dailyTrades = <<>>
    /\ NoRequestYet

NextCycle ==
    \/ \E c \in Slots : manageOpenPositions(c)
    \/ \E c \in Slots : manageTradeStep(c, TRUE)
    \/ \E c \in Slots : skipSymbolStep(c, TRUE)
    \/ \E c \in Slots : evaluateSymbolStep(c, TRUE)
    \/ \E c \in Slots : executeTradeStep(c, TRUE)
    \/ \E c \in Slots : EndCycle(c)

SpecCycle == InitCycle /\ [][NextCycle]_vars

(***************************************************************************)
(* TradingService.closePosition called directly on the OPEN trades of the  *)
(* store, as manageOpenPositions calls it once the exit check says so      *)
(***************************************************************************)
\* a position of quantity 2 entered at 100, as Trade.create stores it
OpenAt100(symbol, side, stopLoss, takeProfit) ==
    NewTrade(symbol, side, Num(100), Num(2), stopLoss, takeProfit, Num(1000), Num(100))

\* side BUY is what executeTrade writes; side SELL is the other value of the
\* schema's enum, written for a SHORT
CloseStores ==
    {<<OpenAt100("BTCUSDT", "BUY", Num(95), Num(110))>>,
     <<OpenAt100("BTCUSDT", "SELL", Num(105), Num(90))>>,
     <<OpenAt100("BTCUSDT", "BUY", Num(95), Num(110)),
       OpenAt100("ETHUSDT", "SELL", Num(105), Num(90))>>}

ExitPrices == {Num(90), Num(100), Num(110)}

InitClose ==
    /\ trades \in CloseStores
    /\ day = 0
    /\ isRunning = FALSE
    /\ intervalId = FALSE
    /\ timers = 0
    /\ startPc = "idle"
    /\ cycles = [c \in Slots |-> IdleCycle]
    /\ tripped = FALSE
    /\ harness = NoCall
    /\ dailyTrades = <<>>
    /\ NoRequestYet

CallClosePosition ==
    /\ \E k \in 1..Len(OpenIds(trades, 1)), exitPrice \in ExitPrices,
          orderOk, writeOk \in BOOLEAN :
          LET id == OpenIds(trades, 1)[k]
          IN  /\ trades[id].g_closingOrders < MaxClosingOrders
              /\ trades' = [trades EXCEPT
                               ![id] = closePositionCall(@, exitPrice, day,
                                                         orderOk, writeOk)]
              /\ harness' = [fn |-> "closePosition", id |-> id, trade |-> trades[id],
                             exitPrice |-> exitPrice, orderOk |-> orderOk,
                             writeOk |-> writeOk]
    /\ UNCHANGED <<apiVars, dailyTrades, day, isRunning, intervalId, timers, startPc, cycles, tripped>>

NextClose == CallClosePosition

SpecClose == InitClose /\ [][NextClose]_vars

(***************************************************************************)
(* StrategyService called directly.  Its functions keep no state, so a     *)
(* behaviour is one call, recorded in harness                              *)
(***************************************************************************)
\* the direction argument: the two values of its type, and trade.side as
\* manageOpenPositions passes it
ExitDirections == {"LONG", "SHORT", "BUY"}
ExitCurrentPrices == {Num(90), Num(100), Num(110)}
ExitStops == {Num(95), Num(105)}
ExitTargets == {Num(90), Num(110)}
\* a bearish and a bullish crossover, no crossover, and klines too short for an EMA
ExitEmas ==
    EmaInputs
    \cup {[prevShort |-> Num(10), prevLong |-> Num(9), curShort |-> Num(10), curLong |-> Num(9)],
          [prevShort |-> Undefined, prevLong |-> Undefined,
           curShort |-> Undefined, curLong |-> Undefined]}

\* numbers of closes around each indicator's minimum, and the 100 the engine fetches
SignalBars == {0, 14, 15, 19, 20, 21, 33, 34, 35, 49, 50, 51, 100}
SignalPrices == {Num(1000), Num(50000)}
\* EMA20 crossing above EMA50, crossing below it, and staying above it
SignalEmas ==
    {[prevEMA20 |-> Num(9), prevEMA50 |-> Num(10), currEMA20 |-> Num(11), currEMA50 |-> Num(10)],
     [prevEMA20 |-> Num(10), prevEMA50 |-> Num(10), currEMA20 |-> Num(9), currEMA50 |-> Num(10)],
     [prevEMA20 |-> Num(11), prevEMA50 |-> Num(10), currEMA20 |-> Num(11), currEMA50 |-> Num(10)]}
\* RSI values on and between the thresholds of the three strategies; NaN is the
\* RSI of closes that never moved (0 / 0)
SignalRsis ==
    {Num(25), Num(30), Num(32), Num(35), Num(40), Num(45), Num(47), Num(50),
     Num(52), Num(55), Num(60), Num(65), Num(68), Num(70), Num(75), NaN}
\* the bands around the price, the price on the lower band, on the upper band
SignalBands(price) ==
    {[currLowerBB |-> JsMul(price, Pct(90)), currUpperBB |-> JsMul(price, Pct(110))],
     [currLowerBB |-> price, currUpperBB |-> JsMul(price, Pct(110))],
     [currLowerBB |-> JsMul(price, Pct(90)), currUpperBB |-> price]}
\* the histogram turning positive, turning negative, staying positive
SignalHists ==
    {[prevHist |-> Num(-1), currHist |-> Num(1)],
     [prevHist |-> Num(1), currHist |-> Num(-1)],
     [prevHist |-> Num(1), currHist |-> Num(1)]}

InitStrategy ==
    /\ trades = <<>>
    /\ day = 0
    /\ isRunning = FALSE
    /\ intervalId = FALSE
    /\ timers = 0
    /\ startPc = "idle"
    /\ cycles = [c \in Slots |-> IdleCycle]
    /\ tripped = FALSE
    /\ harness = NoCall
    /\ dailyTrades = <<>>
    /\ NoRequestYet

CallShouldExitPosition ==
    /\ harness = NoCall
    /\ \E currentPrice \in ExitCurrentPrices, stopLoss \in ExitStops,
          takeProfit \in ExitTargets, ema \in ExitEmas, direction \in ExitDirections :
          harness' = [fn |-> "shouldExitPosition", entryPrice |-> Num(100),
                      currentPrice |-> currentPrice, stopLoss |-> stopLoss,
                      takeProfit |-> takeProfit, ema |-> ema, direction |-> direction,
                      result |-> shouldExitPosition(Num(100), currentPrice, stopLoss,
                                                    takeProfit, ema, direction)]
    /\ UNCHANGED <<apiVars, dailyTrades, trades, day, isRunning, intervalId, timers, startPc, cycles, tripped>>

CallGenerateSignal ==
    /\ harness = NoCall
    /\ \E bars \in SignalBars, price \in SignalPrices, ema \in SignalEmas,
          rsi \in SignalRsis, hist \in SignalHists :
          \E band \in SignalBands(price) :
          \E ind \in {Indicators(bars,
                                 [currentPrice |-> price,
                                  currEMA20 |-> ema.currEMA20, prevEMA20 |-> ema.prevEMA20,
                                  currEMA50 |-> ema.currEMA50, prevEMA50 |-> ema.prevEMA50,
                                  currRSI |-> rsi,
                                  currLowerBB |-> band.currLowerBB,
                                  currUpperBB |-> band.currUpperBB,
                                  currHist |-> hist.currHist,
                                  prevHist |-> hist.prevHist])} :
             harness' = [fn |-> "generateSignal", symbol |-> "BTCUSDT", bars |-> bars,
                         ind |-> ind, result |-> generateSignal("BTCUSDT", ind)]
    /\ UNCHANGED <<apiVars, dailyTrades, trades, day, isRunning, intervalId, timers, startPc, cycles, tripped>>

\* 100 - 100 / (1 + avgGain / avgLoss)
RsiValue(avgGain, avgLoss) ==
    JsSub(Num(100), JsDiv(Num(100), JsAdd(Num(1), JsDiv(avgGain, avgLoss))))

RECURSIVE InitialSums(_, _, _, _, _)
\* the first loop of calculateRSI from its step i on (i = 1 .. period):
\* change = prices[i] - prices[i - 1] goes to gains if positive, else to losses.
\* The source's indices start at 0, the sequence's at 1
InitialSums(prices, period, i, gains, losses) ==
    IF i > period THEN [gains |-> gains, losses |-> losses]
    ELSE LET change == JsSub(prices[i + 1], prices[i])
         IN  IF JsGT(change, Num(0))
             THEN InitialSums(prices, period, i + 1, JsAdd(gains, change), losses)
             ELSE InitialSums(prices, period, i + 1, gains, JsSub(losses, change))

RECURSIVE SmoothedRsi(_, _, _, _, _)
\* the second loop of calculateRSI from its step i on (i = period + 1 ..
\* prices.length - 1): the values rsi[i], rsi[i + 1], ...
SmoothedRsi(prices, period, i, avgGain, avgLoss) ==
    IF i >= Len(prices) THEN <<>>
    ELSE LET change == JsSub(prices[i + 1], prices[i])
             gain == IF JsGT(change, Num(0)) THEN change ELSE Num(0)
             loss == IF JsLT(change, Num(0)) THEN JsNeg(change) ELSE Num(0)
         IN  \* CHOOSE over a singleton: each average is computed once
             LET nextGain == CHOOSE g \in {JsDiv(JsAdd(JsMul(avgGain, Num(period - 1)),
                                                       gain), Num(period))} : TRUE
                 nextLoss == CHOOSE l \in {JsDiv(JsAdd(JsMul(avgLoss, Num(period - 1)),
                                                       loss), Num(period))} : TRUE
             IN  <<RsiValue(nextGain, nextLoss)>>
                 \o SmoothedRsi(prices, period, i + 1, nextGain, nextLoss)

\* calculateRSI: [] for fewer than period + 1 prices; else the array whose
\* elements 0 .. period - 1 are never assigned (Undefined) and whose element i
\* from period on is the RSI after prices[i]
calculateRSI(prices, period) ==
    IF Len(prices) < period + 1 THEN <<>>
    ELSE LET sums == InitialSums(prices, period, 1, Num(0), Num(0))
             avgGain == JsDiv(sums.gains, Num(period))
             avgLoss == JsDiv(sums.losses, Num(period))
         IN  [k \in 1..period |-> Undefined]
             \o <<RsiValue(avgGain, avgLoss)>>
             \o SmoothedRsi(prices, period, period + 1, avgGain, avgLoss)

\* the k-th close of a series of one shape
ShapedClose(shape, k) ==
    IF shape = "flat" THEN Num(1000)
    ELSE IF shape = "rising" THEN Num(1000 + k)
    ELSE IF shape = "falling" THEN Num(1000 - k)
    ELSE Num(1000 + 2 * (k % 2))

\* closes handed to calculateRSI: every series of two to five closes out of three
\* values with period 2, and flat, rising, falling and alternating series around
\* the default period 14
RsiInputs ==
    {[prices |-> p, period |-> 2] :
        p \in UNION {[1..n -> {Num(100), Num(101), Num(103)}] : n \in 2..5}}
    \cup {[prices |-> [k \in 1..n |-> ShapedClose(shape, k)], period |-> 14] :
            shape \in {"flat", "rising", "falling", "alternating"}, n \in 14..16}

CallCalculateRSI ==
    /\ harness = NoCall
    /\ \E input \in RsiInputs :
          harness' = [fn |-> "calculateRSI", prices |-> input.prices,
                      period |-> input.period,
                      result |-> calculateRSI(input.prices, input.period)]
    /\ UNCHANGED <<apiVars, dailyTrades, trades, day, isRunning, intervalId, timers, startPc, cycles, tripped>>

RECURSIVE SumFirst(_, _)
\* the first loop of calculateEMA: prices[0] + ... + prices[n - 1]
SumFirst(prices, n) ==
    IF n = 0 THEN Num(0) ELSE JsAdd(SumFirst(prices, n - 1), prices[n])

RECURSIVE EmaFrom(_, _, _, _)
\* the second loop of calculateEMA from its step i on: ema[i], ema[i + 1], ...
\* with ema[i] = prices[i] * k + ema[i - 1] * (1 - k) and k = 2 / (period + 1).
\* The source's indices start at 0, the sequence's at 1
EmaFrom(prices, period, i, prev) ==
    IF i >= Len(prices) THEN <<>>
    ELSE LET k == Rat(2, period + 1)
         IN  LET next == CHOOSE e \in {JsAdd(JsMul(prices[i + 1], k),
                                            JsMul(prev, JsSub(Num(1), k)))} : TRUE
             IN  <<next>> \o EmaFrom(prices, period, i + 1, next)

\* calculateEMA: [] below period prices; else an array as long as the prices
\* whose elements before period - 1 are never assigned (Undefined)
calculateEMA(prices, period) ==
    IF Len(prices) < period THEN <<>>
    ELSE LET first == JsDiv(SumFirst(prices, period), Num(period))
         IN  [j \in 1..(period - 1) |-> Undefined]
             \o <<first>>
             \o EmaFrom(prices, period, period, first)

\* array[i] of JavaScript for an index from 0: undefined beyond the length
At(array, i) == IF i + 1 \in 1..Len(array) THEN array[i + 1] ELSE Undefined

\* the array after the assignments value(i) to the indices i of assigned: its
\* length is one more than the highest of them, the others are holes
Assigned(assigned, value(_)) ==
    IF assigned = {} THEN <<>>
    ELSE LET top == CHOOSE i \in assigned : \A j \in assigned : j <= i
         IN  [j \in 1..(top + 1) |->
                IF j - 1 \in assigned THEN value(j - 1) ELSE Undefined]

\* the offset of the signal line against the prices taken from the number of
\* signal values instead of the length of the signal array
MutMacdOffset(prices, signal) ==
    Len(prices) - Len(SelectSeq(signal, LAMBDA v : v # Undefined))

\* const offset = prices.length - signal.length
MacdOffset(prices, signal) == Len(prices) - Len(signal)

\* calculateMACD: macd where both EMAs are there, signal the EMA of the macd
\* values without the holes, histogram[i + offset] = macd[i + offset] - signal[i]
\* for every index i of the signal array, holes included
calculateMACD(prices, fastPeriod, slowPeriod, signalPeriod) ==
    LET fastEMA == calculateEMA(prices, fastPeriod)
        slowEMA == calculateEMA(prices, slowPeriod)
        macd ==
            Assigned({i \in 0..(Len(prices) - 1) :
                         At(fastEMA, i) # Undefined /\ At(slowEMA, i) # Undefined},
                     LAMBDA i : JsSub(At(fastEMA, i), At(slowEMA, i)))
    IN  LET signal ==
                calculateEMA(SelectSeq(macd, LAMBDA v : v # Undefined), signalPeriod)
        IN  LET offset == MacdOffset(prices, signal)
            IN  [macd |-> macd, signal |-> signal,
                 histogram |->
                    Assigned({i + offset : i \in 0..(Len(signal) - 1)},
                             LAMBDA fullIdx :
                                JsSub(At(macd, fullIdx), At(signal, fullIdx - offset)))]

\* closes handed to calculateMACD: every series of up to six closes out of three
\* values with the short periods, flat series around 26 and 34 closes with the
\* default ones
MacdInputs ==
    {[prices |-> p, periods |-> [fast |-> 2, slow |-> 3, signal |-> 2]] :
        p \in UNION {[1..n -> {Num(1), Num(2), Num(4)}] : n \in 0..6}}
    \cup {[prices |-> [j \in 1..n |-> Num(1000)],
           periods |-> [fast |-> 12, slow |-> 26, signal |-> 9]] :
            n \in {25, 26, 33, 34, 35, 36}}

CallCalculateMACD ==
    /\ harness = NoCall
    /\ \E input \in MacdInputs :
          harness' = [fn |-> "calculateMACD", prices |-> input.prices,
                      periods |-> input.periods,
                      result |-> calculateMACD(input.prices, input.periods.fast,
                                               input.periods.slow,
                                               input.periods.signal)]
    /\ UNCHANGED <<apiVars, dailyTrades, trades, day, isRunning, intervalId, timers, startPc, cycles, tripped>>

NextStrategy ==
    \/ CallShouldExitPosition
    \/ CallGenerateSignal
    \/ CallCalculateRSI
    \/ CallCalculateMACD

SpecStrategy == InitStrategy /\ [][NextStrategy]_vars

(***************************************************************************)
(* Properties                                                              *)
(***************************************************************************)
OpenOf(symbol) ==
    {i \in 1..Len(trades) : trades[i].symbol = symbol /\ trades[i].status = "OPEN"}

Symbols == {symbols[k] : k \in 1..Len(symbols)}

\* a cycle's signal passed validateTrade in this step and goes on to executeTrade
Accepted(c) == cycles[c].pc = "scan" /\ cycles'[c].pc = "exec"

\* C1: in every reachable state the store holds at most one OPEN trade for each
\* symbol.
OneOpenPositionPerSymbol ==
    \A symbol \in Symbols : Cardinality(OpenOf(symbol)) <= 1

\* C2: two trading cycles are never in progress at the same time: a timer tick
\* does not begin a cycle while an earlier one has not run to completion.
CyclesNeverOverlap ==
    Cardinality({c \in Slots : InProgress(c)}) <= 1

\* C3: once validateTrade has rejected for the daily loss limit on a day, no later
\* validateTrade call of that day accepts a signal.
BreakerStaysTripped ==
    [][tripped => \A c \in Slots : ~Accepted(c)]_vars

DirectionalWithLevels(signal) ==
    /\ signal.direction \in {"LONG", "SHORT"}
    /\ ~Falsy(signal.stopLoss)
    /\ ~Falsy(signal.entryMax)

WithinRiskCeiling(signal) ==
    Falsy(signal.maxRiskPercent) \/ ~JsGT(signal.maxRiskPercent, Num(MaxRiskCeiling))

\* C4: when the realized PnL of the trades closed since local midnight sums to
\* strictly less than -(initialCapital x maxDailyLoss), validateTrade on a
\* directional signal with stop and entry set (and risk within the ceiling, which
\* is checked first) returns valid = false with the daily-limit reason; when the
\* sum is at or above that bound the breaker does not reject.
BreakerRejectsBeyondLimit ==
    (harness.fn = "validateTrade" /\ DirectionalWithLevels(harness.signal)
        /\ WithinRiskCeiling(harness.signal))
    => IF JsLT(SumPnl(trades, day), JsNeg(JsMul(initialCapital, maxDailyLoss)))
       THEN ~harness.result.valid /\ harness.result.reason = DailyLimitReason
       ELSE harness.result.reason # DailyLimitReason

\* C5: validateTrade returns valid = false, with a reason, for any signal on a
\* symbol that has an OPEN trade in the store, whatever its levels and the equity.
OpenPositionRejected ==
    (harness.fn = "validateTrade" /\ OpenOf(harness.signal.symbol) # {})
    => ~harness.result.valid /\ harness.result.reason # ""

\* the reason of the first of the seven conditions that holds, "" if none does;
\* conditions 4 and 5 are what the two helpers answered the call
FirstRejection(signal, equity, dailyLossExceeded, open) ==
    LET stopDistance == JsAbs(JsSub(signal.entryMax, signal.stopLoss))
        notional == JsMul(JsDiv(JsMul(equity, Pct(2)), stopDistance), signal.entryMax)
        holds ==
            << signal.direction = "NO_TRADE",
               Falsy(signal.stopLoss) \/ Falsy(signal.entryMax),
               ~WithinRiskCeiling(signal),
               dailyLossExceeded,
               open,
               JsLT(notional, Num(10)),
               JsGT(notional, JsDiv(equity, Num(2))) >>
        reasons ==
            << "No trade signal generated", "Missing stop-loss or entry price",
               "Risk exceeds maximum 5%", DailyLimitReason,
               "Already have an open position", "Position size too small",
               "Position size exceeds 50% of equity" >>
        first == {k \in 1..7 : holds[k] /\ \A j \in 1..(k - 1) : ~holds[j]}
    IN  IF first = {} THEN "" ELSE reasons[CHOOSE k \in first : TRUE]

PositionSizeFormula ==
    (harness.fn = "calculatePositionSize" /\ harness.entryPrice # harness.stopLoss)
    => /\ JsMul(harness.result, JsAbs(JsSub(harness.entryPrice, harness.stopLoss)))
             = JsMul(harness.equity, Pct(2))
       /\ (harness.equity = Num(100) /\ harness.entryPrice = Num(50000)
              /\ harness.stopLoss = Num(47500))
             => harness.result = Rat(8, 10000)

PositionSizeWitness ==
    /\ harness.fn = "calculatePositionSize"
    /\ harness.equity = Num(100)
    /\ harness.entryPrice = Num(50000)
    /\ harness.stopLoss = Num(47500)
    /\ harness.result = Rat(8, 10000)

\* C8: every trade record risks exactly riskPerTrade of the equity it was sized
\* with: |entry_price - stop_loss| x quantity = equity x riskPerTrade.
RecordRisksConfiguredFraction ==
    \A i \in 1..Len(trades) :
        JsMul(JsAbs(JsSub(trades[i].entry_price, trades[i].stop_loss)),
              trades[i].quantity)
            = JsMul(trades[i].g_equity, riskPerTrade)

\* C9: for every trade record, quantity x entry_price as stored is at least 10
\* and at most 50% of the equity the cycle used when it created the record.
RecordNotionalWithinLimits ==
    \A i \in 1..Len(trades) :
        LET notional == JsMul(trades[i].quantity, trades[i].entry_price)
        IN  /\ JsGE(notional, Num(MinNotional))
            /\ JsLE(notional, JsMul(trades[i].g_equity, Pct(50)))

SideFactor(trade) == IF trade.side = "BUY" THEN Num(1) ELSE Num(-1)

Breached(trade, price) ==
    IF trade.side = "BUY"
    THEN JsLE(price, trade.stop_loss) \/ JsGE(price, trade.take_profit)
    ELSE JsGE(price, trade.stop_loss) \/ JsLE(price, trade.take_profit)

\* C13: a position whose price at the cycle's exit evaluation is through its stop
\* or its target is CLOSED at that price once the evaluation is over (hence at the
\* end of the cycle), unless the closing order or the write of the close failed
BreachedIsClosed ==
    (/\ harness.fn = "exitCheck"
     /\ Breached(harness.trade, harness.currentPrice)
     /\ ~harness.closeFailed)
    => /\ trades[harness.id].status = "CLOSED"
       /\ trades[harness.id].exit_price = harness.currentPrice

\* the three exit conditions of a call of shouldExitPosition, for the direction
\* the call was given
StopLossHolds(call) ==
    \/ call.direction = "LONG" /\ JsLE(call.currentPrice, call.stopLoss)
    \/ call.direction = "SHORT" /\ JsGE(call.currentPrice, call.stopLoss)

TakeProfitHolds(call) ==
    \/ call.direction = "LONG" /\ JsGE(call.currentPrice, call.takeProfit)
    \/ call.direction = "SHORT" /\ JsLE(call.currentPrice, call.takeProfit)

ReversalHolds(call) ==
    \/ /\ call.direction = "LONG"
       /\ JsGE(call.ema.prevShort, call.ema.prevLong)
       /\ JsLT(call.ema.curShort, call.ema.curLong)
    \/ /\ call.direction = "SHORT"
       /\ JsLE(call.ema.prevShort, call.ema.prevLong)
       /\ JsGT(call.ema.curShort, call.ema.curLong)

\* C14: shouldExitPosition reports the first of stop-loss, take-profit and trend
\* reversal that holds: the stop-loss reason whenever the stop-loss condition
\* holds, whatever else holds, and shouldExit is false only when none holds
ExitPriority ==
    harness.fn = "shouldExitPosition"
    => /\ StopLossHolds(harness) => harness.result.reason = "Stop-loss triggered"
       /\ (~StopLossHolds(harness) /\ TakeProfitHolds(harness))
             => harness.result.reason = "Take-profit target reached"
       /\ (~StopLossHolds(harness) /\ ~TakeProfitHolds(harness) /\ ReversalHolds(harness))
             => harness.result.reason \in
                    {"Trend reversal detected (bearish crossover)",
                     "Trend reversal detected (bullish crossover)"}
       /\ harness.result.shouldExit
             <=> (StopLossHolds(harness) \/ TakeProfitHolds(harness)
                     \/ ReversalHolds(harness))
       /\ ~harness.result.shouldExit => harness.result.reason = ""

\* a call in which the stop-loss, the take-profit and the reversal condition all
\* hold, answered with the stop-loss reason
ExitPriorityWitness ==
    /\ harness.fn = "shouldExitPosition"
    /\ StopLossHolds(harness)
    /\ TakeProfitHolds(harness)
    /\ ReversalHolds(harness)
    /\ harness.result = [shouldExit |-> TRUE, reason |-> "Stop-loss triggered"]

Fired(direction) == direction # "NO_TRADE"

\* C15: generateSignal tries the crossover, then the Bollinger, then the MACD
\* strategy; the first that fires alone gives direction and rationale, and
\* NO_TRADE is returned only if none fires
StrategyOrder ==
    harness.fn = "generateSignal"
    => LET ind == harness.ind
           result == harness.result
           first == crossoverStrategy(ind)
           second == bollingerStrategy(ind)
           third == macdStrategy(ind)
       IN  /\ Fired(first)
                 => /\ ~result.threw
                    /\ result.signal.direction = first
                    /\ result.rationale = CrossoverRationale
           /\ (~Fired(first) /\ Fired(second))
                 => /\ ~result.threw
                    /\ result.signal.direction = second
                    /\ result.rationale = BollingerRationale
           /\ (~Fired(first) /\ ~Fired(second) /\ Fired(third))
                 => /\ ~result.threw
                    /\ result.signal.direction = third
                    /\ result.rationale = MacdRationale
           /\ (~result.threw /\ result.signal.direction = "NO_TRADE")
                 => ~Fired(first) /\ ~Fired(second) /\ ~Fired(third)

\* a call in which the crossover says LONG and the Bollinger strategy says SHORT,
\* answered LONG with the crossover's rationale
StrategyOrderWitness ==
    /\ harness.fn = "generateSignal"
    /\ crossoverStrategy(harness.ind) = "LONG"
    /\ bollingerStrategy(harness.ind) = "SHORT"
    /\ ~harness.result.threw
    /\ harness.result.signal.direction = "LONG"
    /\ harness.result.rationale = CrossoverRationale

BullishCross(ind) ==
    JsLE(ind.prevEMA20, ind.prevEMA50) /\ JsGT(ind.currEMA20, ind.currEMA50)

BearishCross(ind) ==
    JsGE(ind.prevEMA20, ind.prevEMA50) /\ JsLT(ind.currEMA20, ind.currEMA50)

ByCrossover(result, direction) ==
    /\ ~result.threw
    /\ result.signal.direction = direction
    /\ result.rationale = CrossoverRationale

\* C16: the crossover strategy answers LONG exactly on a bullish cross with
\* 45 < RSI < 70 and SHORT exactly on a bearish cross with 30 < RSI < 55; 100 bars
\* with a bullish cross and RSI 55 give LONG with the crossover rationale
CrossoverRule ==
    harness.fn = "generateSignal"
    => LET ind == harness.ind
       IN  /\ ByCrossover(harness.result, "LONG")
                 <=> (BullishCross(ind) /\ JsLT(Num(45), ind.currRSI)
                         /\ JsLT(ind.currRSI, Num(70)))
           /\ ByCrossover(harness.result, "SHORT")
                 <=> (BearishCross(ind) /\ JsLT(Num(30), ind.currRSI)
                         /\ JsLT(ind.currRSI, Num(55)))
           /\ (harness.bars = 100 /\ BullishCross(ind) /\ ind.currRSI = Num(55))
                 => ByCrossover(harness.result, "LONG")

CrossoverRuleWitness ==
    /\ harness.fn = "generateSignal"
    /\ harness.bars = 100
    /\ BullishCross(harness.ind)
    /\ harness.ind.currRSI = Num(55)
    /\ ByCrossover(harness.result, "LONG")

\* C17: with fewer than 50 bars generateSignal does not throw and returns NO_TRADE
ShortHistoryIsNoTrade ==
    (harness.fn = "generateSignal" /\ harness.bars < 50)
    => /\ ~harness.result.threw
       /\ harness.result.signal.direction = "NO_TRADE"

\* C18: a LONG signal has its stop 5% below the price and its target twice the
\* stop distance above it; a SHORT signal is the mirror; both carry
\* maxRiskPercent 5 and an entry band of the price -/+ 0.2%
SignalLevels ==
    (harness.fn = "generateSignal" /\ ~harness.result.threw
        /\ harness.result.signal.direction # "NO_TRADE")
    => LET price == harness.ind.currentPrice
           signal == harness.result.signal
           risk == JsAbs(JsSub(price, signal.stopLoss))
           reward == JsAbs(JsSub(signal.takeProfit1, price))
       IN  /\ signal.direction = "LONG"
                 => /\ signal.stopLoss = JsMul(Rat(95, 100), price)
                    /\ signal.takeProfit1 =
                           JsAdd(price, JsMul(Num(2), JsSub(price, signal.stopLoss)))
                    /\ JsLT(signal.stopLoss, price) /\ JsLT(price, signal.takeProfit1)
           /\ signal.direction = "SHORT"
                 => /\ signal.stopLoss = JsMul(Rat(105, 100), price)
                    /\ signal.takeProfit1 =
                           JsSub(price, JsMul(Num(2), JsSub(signal.stopLoss, price)))
                    /\ JsLT(signal.takeProfit1, price) /\ JsLT(price, signal.stopLoss)
           /\ reward = JsMul(Num(2), risk)
           /\ signal.maxRiskPercent = Num(5)
           /\ {signal.entryMin, signal.entryMax}
                 = {JsMul(price, Rat(998, 1000)), JsMul(price, Rat(1002, 1000))}

\* a LONG signal at price 50000: stop 47500, target 55000
SignalLevelsWitness ==
    /\ harness.fn = "generateSignal"
    /\ ~harness.result.threw
    /\ harness.ind.currentPrice = Num(50000)
    /\ harness.result.signal.direction = "LONG"
    /\ harness.result.signal.stopLoss = Num(47500)
    /\ harness.result.signal.takeProfit1 = Num(55000)

\* C19: validateTrade is never called with a NO_TRADE signal: evaluateSymbol
\* calls it for LONG and SHORT signals only
NoTradeNeverValidated ==
    harness.fn = "evaluateSymbol"
    => /\ Has(harness.calls, "validateTrade")
             => harness.signal.direction \in {"LONG", "SHORT"}
       /\ harness.validation.reason # "No trade signal generated"

\* a NO_TRADE signal came back from generateSignal and evaluateSymbol made no call
NoTradeNeverValidatedWitness ==
    /\ harness.fn = "evaluateSymbol"
    /\ harness.signal.direction = "NO_TRADE"
    /\ harness.calls = <<>>
    /\ harness.validation = NoValidation

SymbolFailureIsolated ==
    [][\A c \in Slots :
          (cycles[c].pc \in {"scan", "exec"} /\ cycles'[c] # cycles[c])
          => \/ /\ cycles[c].pc = "scan"
                /\ cycles'[c].pc = "exec"
                /\ cycles'[c].sym = cycles[c].sym
             \/ /\ cycles[c].sym < Len(symbols)
                /\ cycles'[c].pc = "scan"
                /\ cycles'[c].sym = cycles[c].sym + 1
             \/ /\ cycles[c].sym = Len(symbols)
                /\ cycles'[c].pc = "done"]_vars

\* the evaluation of BTCUSDT threw and the same cycle is about to evaluate ETHUSDT
SymbolFailureIsolatedWitness ==
    /\ harness.fn = "evaluateSymbolThrew"
    /\ harness.symbol = "BTCUSDT"
    /\ cycles[1].pc = "scan"
    /\ symbols[cycles[1].sym] = "ETHUSDT"

Times(seq, x) == Cardinality({k \in 1..Len(seq) : seq[k] = x})

\* C23: executeTrade attempts the entry order at most once, writes the position
\* only after that attempt succeeded, and writes none when the order failed
EntryOrderBeforePosition ==
    harness.fn = "executeTrade"
    => /\ Times(harness.calls, "placeMarketOrder") <= 1
       /\ Len(trades) > harness.before
             => Has(harness.calls, "placeMarketOrder") /\ harness.orderOk
       /\ (Has(harness.calls, "placeMarketOrder") /\ ~harness.orderOk)
             => /\ Len(trades) = harness.before
                /\ ~Has(harness.calls, "saveTrade")

\* the entry order of an accepted signal failed and the store has no new record
EntryOrderBeforePositionWitness ==
    /\ harness.fn = "executeTrade"
    /\ harness.calls = <<"getCurrentPrice", "placeMarketOrder">>
    /\ ~harness.orderOk
    /\ Len(trades) = harness.before

\* C26: an entry order that was placed is followed in the same executeTrade call
\* by the placement of the stop-loss order
StopLossFollowsEntry ==
    (/\ harness.fn = "executeTrade"
     /\ Has(harness.calls, "placeMarketOrder")
     /\ harness.orderOk)
    => Has(harness.calls, "placeStopLossOrder")

\* the moves of one runTradingCycle call from one await to the next
CycleMoves ==
    {<<"idle", "list">>, <<"idle", "done">>, <<"list", "manage">>,
     <<"list", "scan">>, <<"manage", "scan">>, <<"scan", "exec">>,
     <<"scan", "done">>, <<"exec", "scan">>, <<"exec", "done">>}

\* no call of runTradingCycle returns in this step (a return renumbers the calls
\* still in progress)
NoCycleEnded == \A b \in Slots : cycles[b].pc = "done" => cycles'[b] = cycles[b]

\* C22: a cycle goes from the equity refresh to the management of the open
\* positions and only from there to the symbol scan, and a position is created
\* only by a cycle that is placing the trade of a scanned symbol
CycleStepOrder ==
    [][NoCycleEnded
       => /\ \A c \in Slots :
                cycles'[c].pc # cycles[c].pc
                => <<cycles[c].pc, cycles'[c].pc>> \in CycleMoves
          /\ Len(trades') > Len(trades)
                => \E c \in Slots : cycles[c].pc = "exec" /\ cycles'[c] # cycles[c]]_vars

\* a cycle is placing the trade of a scanned symbol while a position is open
CycleStepOrderWitness ==
    \E c \in Slots :
       /\ cycles[c].pc = "exec"
       /\ \E i \in 1..Len(trades) : trades[i].status = "OPEN"

\* the runTradingCycle calls in progress
CyclesInProgress == Cardinality({c \in Slots : InProgress(c)})

\* C24: while the service is stopped (stop() was called and start() has not been
\* called since) no call of runTradingCycle begins
NoCycleBeginsWhileStopped ==
    [][~isRunning => CyclesInProgress' <= CyclesInProgress]_vars

(***************************************************************************)
(* BinanceService called directly                                          *)
(***************************************************************************)
\* process.env.TRADING_MODE: not set, or one of the values an operator writes
NoEnv == "(unset)"
TradingModes == {NoEnv, "paper", "live", "PAPER"}

\* the constructor: this.isPaperMode = process.env.TRADING_MODE === 'paper'
isPaperMode(TRADING_MODE) == TRADING_MODE = "paper"

\* placeMarketOrder: nothing is sent in paper mode and null is returned;
\* otherwise one client.order call, whose error is logged and rethrown
placeMarketOrder(paper, symbol, side, quantity, exchangeOk) ==
    IF paper
    THEN [sent |-> <<>>, threw |-> FALSE]
    ELSE [sent |-> <<[symbol |-> symbol, side |-> side, type |-> "MARKET",
                      quantity |-> quantity]>>,
          threw |-> ~exchangeOk]

\* placeStopLossOrder: the same with a STOP_LOSS_LIMIT order
placeStopLossOrder(paper, symbol, side, quantity, stopPrice, limitPrice, exchangeOk) ==
    IF paper
    THEN [sent |-> <<>>, threw |-> FALSE]
    ELSE [sent |-> <<[symbol |-> symbol, side |-> side, type |-> "STOP_LOSS_LIMIT",
                      quantity |-> quantity, stopPrice |-> stopPrice,
                      price |-> limitPrice]>>,
          threw |-> ~exchangeOk]

\* answers: what the exchange answers to the first, second, ... request of one
\* kind.  getKlines, getCurrentPrice and getAccountBalance each await one client
\* call inside try/catch; the catch logs the error and throws it again
readOnce(answers) ==
    [requests |-> <<answers[1]>>, threw |-> answers[1] # "ok",
     logged |-> answers[1] # "ok"]

getKlines(symbol, answers) == readOnce(answers)

getCurrentPrice(symbol, answers) == readOnce(answers)

\* getUSDTBalance awaits getAccountBalance with no try block of its own
getUSDTBalance(answers) == readOnce(answers)

OrderSides == {"BUY", "SELL"}
OrderQuantities == {Rat(1, 100), Rat(1, 10)}
OrderStops == {Num(950), Num(980)}
ReadAnswers ==
    {<<"ok">>, <<"timeout", "ok">>, <<"rate limit", "ok">>,
     <<"timeout", "timeout", "ok">>, <<"timeout", "timeout", "timeout">>}

InitBinance ==
    /\ trades = <<>>
    /\ day = 0
    /\ isRunning = FALSE
    /\ intervalId = FALSE
    /\ timers = 0
    /\ startPc = "idle"
    /\ cycles = [c \in Slots |-> IdleCycle]
    /\ tripped = FALSE
    /\ harness = NoCall
    /\ dailyTrades = <<>>
    /\ NoRequestYet

NewBinanceService ==
    /\ harness = NoCall
    /\ \E mode \in TradingModes :
          harness' = [fn |-> "BinanceService", TRADING_MODE |-> mode,
                      isPaperMode |-> isPaperMode(mode)]
    /\ UNCHANGED <<apiVars, dailyTrades, trades, day, isRunning, intervalId, timers, startPc, cycles, tripped>>

CallPlaceMarketOrder ==
    /\ harness.fn = "BinanceService"
    /\ \E i \in 1..Len(symbols), side \in OrderSides, quantity \in OrderQuantities,
          exchangeOk \in BOOLEAN :
          harness' = [fn |-> "placeMarketOrder", TRADING_MODE |-> harness.TRADING_MODE,
                      symbol |-> symbols[i], side |-> side, quantity |-> quantity,
                      exchangeOk |-> exchangeOk,
                      result |-> placeMarketOrder(harness.isPaperMode, symbols[i], side,
                                                  quantity, exchangeOk)]
    /\ UNCHANGED <<apiVars, dailyTrades, trades, day, isRunning, intervalId, timers, startPc, cycles, tripped>>

CallPlaceStopLossOrder ==
    /\ harness.fn = "BinanceService"
    /\ \E i \in 1..Len(symbols), side \in OrderSides, quantity \in OrderQuantities,
          stopPrice \in OrderStops, exchangeOk \in BOOLEAN :
          harness' = [fn |-> "placeStopLossOrder", TRADING_MODE |-> harness.TRADING_MODE,
                      symbol |-> symbols[i], side |-> side, quantity |-> quantity,
                      stopPrice |-> stopPrice, exchangeOk |-> exchangeOk,
                      result |-> placeStopLossOrder(harness.isPaperMode, symbols[i], side,
                                                    quantity, stopPrice,
                                                    JsMul(stopPrice, Rat(995, 1000)),
                                                    exchangeOk)]
    /\ UNCHANGED <<apiVars, dailyTrades, trades, day, isRunning, intervalId, timers, startPc, cycles, tripped>>

CallGetKlines ==
    /\ harness.fn = "BinanceService"
    /\ \E i \in 1..Len(symbols), answers \in ReadAnswers :
          harness' = [fn |-> "getKlines", symbol |-> symbols[i], answers |-> answers,
                      result |-> getKlines(symbols[i], answers)]
    /\ UNCHANGED <<apiVars, dailyTrades, trades, day, isRunning, intervalId, timers, startPc, cycles, tripped>>

CallGetCurrentPrice ==
    /\ harness.fn = "BinanceService"
    /\ \E i \in 1..Len(symbols), answers \in ReadAnswers :
          harness' = [fn |-> "getCurrentPrice", symbol |-> symbols[i],
                      answers |-> answers,
                      result |-> getCurrentPrice(symbols[i], answers)]
    /\ UNCHANGED <<apiVars, dailyTrades, trades, day, isRunning, intervalId, timers, startPc, cycles, tripped>>

CallGetUSDTBalance ==
    /\ harness.fn = "BinanceService"
    /\ \E answers \in ReadAnswers :
          harness' = [fn |-> "getUSDTBalance", answers |-> answers,
                      result |-> getUSDTBalance(answers)]
    /\ UNCHANGED <<apiVars, dailyTrades, trades, day, isRunning, intervalId, timers, startPc, cycles, tripped>>

NextBinance ==
    \/ NewBinanceService
    \/ CallPlaceMarketOrder
    \/ CallPlaceStopLossOrder
    \/ CallGetKlines
    \/ CallGetCurrentPrice
    \/ CallGetUSDTBalance

SpecBinance == InitBinance /\ [][NextBinance]_vars

\* C25: unless TRADING_MODE is set to live, placeMarketOrder and
\* placeStopLossOrder send no order to the exchange
PaperIsDefault ==
    (/\ harness.fn \in {"placeMarketOrder", "placeStopLossOrder"}
     /\ harness.TRADING_MODE # "live")
    => harness.result.sent = <<>>

\* C29: a read of the balance, the price or the price history whose first request
\* fails and which a later request would answer is retried and does not fail
TransientReadRetried ==
    (/\ harness.fn \in {"getKlines", "getCurrentPrice", "getUSDTBalance"}
     /\ Has(harness.answers, "ok"))
    => ~harness.result.threw

\* C27: a directional signal scored below 75 is not handed to validateTrade, and
\* one evaluated while the scorer has no API key or its call fails is handed to
\* validateTrade as if there were no scorer
AdvisoryOnly ==
    (harness.fn = "evaluateSymbol" /\ harness.signal.direction # "NO_TRADE")
    => /\ (harness.advisory = "answered" /\ JsLT(harness.aiConfidence, Num(75)))
             => ~Has(harness.calls, "validateTrade")
       /\ harness.advisory \in {"disabled", "failed"}
             => Has(harness.calls, "validateTrade")

(***************************************************************************)
(* The TradingService of the API function and its dailyTrades cache        *)
(***************************************************************************)
\* initializeDailyMetrics: dailyTrades becomes the trades of Trade.list that are
\* CLOSED with closed_at >= today; a throw (readOk: there was none) is caught and
\* leaves the cache as it was
initializeDailyMetrics(store, today, readOk, cache) ==
    IF readOk
    THEN SelectSeq(store, LAMBDA t : t.status = "CLOSED" /\ t.closed_at >= today)
    ELSE cache

RECURSIVE currentDailyLoss(_)
\* dailyTrades.reduce((sum, trade) => sum + (trade.realized_pnl < 0 ?
\* trade.realized_pnl : 0), 0)
currentDailyLoss(cache) ==
    IF cache = <<>> THEN Num(0)
    ELSE LET pnl == Head(cache).realized_pnl
         IN  JsAdd(IF JsLT(pnl, Num(0)) THEN pnl ELSE Num(0),
                   currentDailyLoss(Tail(cache)))

\* positions the store holds when the function starts: closed on day 0 at a loss
\* or at a profit, or still open
DailyTradePool ==
    {ClosedEarlier(Num(890), 0), ClosedEarlier(Num(1100), 0),
     NewTrade("ETHUSDT", "BUY", Num(1000), Rat(1, 100), Num(950), Num(1100),
              Num(26), Num(1002))}

DailyStores ==
    {<<>>} \cup {<<t>> : t \in DailyTradePool}
    \cup {<<t, u>> : t \in DailyTradePool, u \in DailyTradePool}

InitDaily ==
    /\ trades \in DailyStores
    /\ day = 0
    /\ isRunning = FALSE
    /\ intervalId = FALSE
    /\ timers = 0
    /\ startPc = "idle"
    /\ cycles = [c \in Slots |-> IdleCycle]
    /\ tripped = FALSE
    /\ harness = NoCall
    /\ dailyTrades = <<>>
    /\ NoRequestYet

\* start() of the API function's service: the isRunning guard, then
\* initializeDailyMetrics, then the interval timer of tradingCycle
startDaily ==
    /\ ~isRunning
    /\ isRunning' = TRUE
    /\ intervalId' = TRUE
    /\ \E readOk \in BOOLEAN :
          dailyTrades' = initializeDailyMetrics(trades, day, readOk, dailyTrades)
    /\ UNCHANGED <<apiVars, trades, day, timers, startPc, cycles, tripped, harness>>

\* stop(): the flag and the timer; dailyTrades is left as it is
stopDaily ==
    /\ isRunning
    /\ isRunning' = FALSE
    /\ intervalId' = FALSE
    /\ UNCHANGED <<apiVars, dailyTrades, trades, day, timers, startPc, cycles, tripped, harness>>

\* the daily-loss check of a tradingCycle's scan.  The exit management before it
\* never reaches its dailyTrades.push: each trade's step throws a ReferenceError
\* (CandleChartInterval is not imported) into its own catch block
dailyLossCheck ==
    /\ isRunning
    /\ harness' = [fn |-> "dailyLossCheck", today |-> day, counted |-> dailyTrades,
                   currentDailyLoss |-> currentDailyLoss(dailyTrades)]
    /\ UNCHANGED <<apiVars, dailyTrades, trades, day, isRunning, intervalId, timers, startPc, cycles, tripped>>

NextDaily ==
    \/ startDaily
    \/ stopDaily
    \/ dailyLossCheck
    \/ Midnight

SpecDaily == InitDaily /\ [][NextDaily]_vars

NoLoss(prices) == \A i \in 1..(Len(prices) - 1) : ~JsLT(prices[i + 1], prices[i])

\* C30: every RSI value calculateRSI assigns is a finite number from 0 to 100,
\* and it is 100 for a series without a falling price, a flat one included
RsiInRange ==
    harness.fn = "calculateRSI"
    => \A k \in 1..Len(harness.result) :
          harness.result[k] # Undefined
          => /\ IsFinite(harness.result[k])
             /\ JsGE(harness.result[k], Num(0))
             /\ JsLE(harness.result[k], Num(100))
             /\ NoLoss(harness.prices) => harness.result[k] = Num(100)

\* the signal line at bar i as the spec has it: the last value of the EMA over the
\* MACD values of the bars up to i, when there are signalPeriod of them
SignalAtBar(macd, signalPeriod, i) ==
    LET upTo == SelectSeq(SubSeq(macd, 1, i + 1), LAMBDA v : v # Undefined)
        ema == calculateEMA(upTo, signalPeriod)
    IN  IF ema = <<>> THEN Undefined ELSE ema[Len(ema)]

\* C31: every element of the histogram calculateMACD assigns is macd[i] minus the
\* signal line of the same bar i, and a histogram that is not empty is as long as
\* the prices, so that its last two elements are those of the last two bars
HistogramAligned ==
    harness.fn = "calculateMACD"
    => LET r == harness.result
       IN  /\ r.histogram # <<>> => Len(r.histogram) = Len(harness.prices)
           /\ \A i \in 0..(Len(r.histogram) - 1) :
                 /\ At(r.histogram, i) # Undefined
                       => At(r.histogram, i)
                             = JsSub(At(r.macd, i),
                                     SignalAtBar(r.macd, harness.periods.signal, i))
                 /\ SignalAtBar(r.macd, harness.periods.signal, i) # Undefined
                       => IsFinite(At(r.histogram, i))

\* a histogram of a series that rises and falls, with a value at its last two bars
HistogramAlignedWitness ==
    /\ harness.fn = "calculateMACD"
    /\ harness.prices = <<Num(1), Num(2), Num(4), Num(2), Num(1), Num(4)>>
    /\ IsFinite(At(harness.result.histogram, 5))
    /\ IsFinite(At(harness.result.histogram, 4))
    /\ At(harness.result.histogram, 5) # Num(0)


\* C32: a step of the exit management that handles one of several OPEN positions,
\* whatever fails in it, leaves the others to be handled in the same cycle
ExitManagementContinues ==
    [][NoCycleEnded
       => \A c \in Slots :
             (/\ cycles[c].pc = "manage"
              /\ Len(cycles[c].todo) > 1
              /\ cycles'[c] # cycles[c])
             => /\ cycles'[c].pc = "manage"
                /\ cycles'[c].todo = Tail(cycles[c].todo)]_vars

\* C33: validateTrade accepts a signal only if the read of today's closed trades
\* and the read of the symbol's OPEN positions both answered
GateFailsClosed ==
    (harness.fn = "evaluateSymbol" /\ harness.validation.valid)
    => harness.dailyReadOk /\ harness.openReadOk

\* C34: at most one interval timer is installed at a time, and an installed one
\* is the one intervalId holds, which stop() clears
AtMostOneTimer ==
    /\ timers <= 1
    /\ timers = 1 => intervalId

\* BUY for a LONG signal, SELL for a SHORT one
SideOf(direction) == IF direction = "LONG" THEN "BUY" ELSE "SELL"

\* C35: the entry order of executeTrade and the position it writes have the side
\* of the signal's direction
SideFollowsDirection ==
    (harness.fn = "executeTrade" /\ Has(harness.calls, "placeMarketOrder"))
    => /\ harness.entrySide = SideOf(harness.signal.direction)
       /\ Len(trades) > harness.before
             => trades[Len(trades)].side = SideOf(harness.signal.direction)

\* the notional of the position sized for a signal: equity x risk / |entryMax -
\* stopLoss| x entryMax
NotionalOf(risk, signal, equity) ==
    JsMul(JsDiv(JsMul(equity, risk), JsAbs(JsSub(signal.entryMax, signal.stopLoss))),
          signal.entryMax)

\* validateTrade rejected neither on the risk ceiling nor on the 50% check, and
\* accepted exactly with the breaker off, no OPEN position and a notional of 10
GateOfGenerated ==
    /\ harness.result.reason
          \notin {"Risk exceeds maximum 5%", "Position size exceeds 50% of equity"}
    /\ harness.result.valid
          <=> /\ ~harness.dailyLossExceeded
              /\ ~harness.hasOpenPosition
              /\ JsGE(NotionalOf(harness.riskPerTrade, harness.signal,
                                 harness.currentEquity), Num(10))

RejectionChangesNothing ==
    [][(/\ harness' # harness
        /\ harness'.fn = "evaluateSymbol"
        /\ Has(harness'.calls, "validateTrade")
        /\ ~harness'.validation.valid)
       => /\ trades' = trades
          /\ \A c \in Slots : cycles'[c].pc # "exec"]_vars

\* validateTrade rejected the LONG signal of a symbol that has an OPEN position,
\* and the cycle is at the next symbol
RejectionChangesNothingWitness ==
    /\ harness.fn = "evaluateSymbol"
    /\ Has(harness.calls, "validateTrade")
    /\ harness.signal.symbol = "BTCUSDT"
    /\ harness.validation.reason = "Already have an open position"
    /\ cycles[1].pc = "scan"
    /\ cycles[1].sym = 2

(***************************************************************************)
(* The API function's trading routes and the scheduled runner              *)
(***************************************************************************)
MaxExecutions == 2
MaxDetached == 2

Cadences == {"STANDARD_1M", "FAST_5S"}

\* fast_execution_arn is null or undefined
NoArn == 0

\* a request body without the field
Absent == "absent"

DEFAULT_CONFIG ==
    [exists |-> TRUE, cadence |-> "STANDARD_1M", enabled |-> TRUE,
     fast_execution_arn |-> NoArn]

\* getOrCreateConfig(): the stored record, or the default one it creates
getOrCreateConfig(stored) == IF stored.exists THEN stored ELSE DEFAULT_CONFIG

\* StartExecutionCommand: a new execution, running; its arn is its index
StartExecution(started) == Append(started, "RUNNING")

\* StopExecutionCommand on an arn
StopExecution(started, arn) == [started EXCEPT ![arn] = "ABORTED"]

Running == {arn \in 1..Len(executions) : executions[arn] = "RUNNING"}

\* the condition under which POST /api/trading/start starts the fast loop
startsFastLoop(config) == config.cadence = "FAST_5S" /\ FAST_STATE_MACHINE_ARN

InitApi ==
    /\ trades = <<>>
    /\ day = 0
    /\ isRunning = FALSE
    /\ intervalId = FALSE
    /\ timers = 0
    /\ startPc = "idle"
    /\ cycles = [c \in Slots |-> IdleCycle]
    /\ tripped = FALSE
    /\ harness = NoCall
    /\ dailyTrades = <<>>
    /\ tradingConfig = NoConfig
    /\ executions = <<>>
    /\ detached = [get |-> 0, update |-> 0]
    /\ stopResponded = FALSE
    /\ FAST_STATE_MACHINE_ARN \in BOOLEAN

\* POST /api/trading/start.  failAt is the await that rejects (0: none): 1 the
\* getOrCreateConfig, 2 the update that enables, 3 the StartExecution, 4 the
\* update that stores the new arn; the catch block answers 500
PostTradingStart ==
    \E failAt \in 0..4 :
       \E config \in {getOrCreateConfig(tradingConfig)} :
          \E fast \in {startsFastLoop(config) /\ failAt \notin {1, 2}} :
             /\ (fast /\ failAt # 3) => Len(executions) < MaxExecutions
             /\ tradingConfig' =
                   IF failAt = 1 THEN tradingConfig
                   ELSE IF failAt = 2 THEN config
                   ELSE IF fast /\ failAt = 0
                        THEN [config EXCEPT !.enabled = TRUE,
                                            !.fast_execution_arn = Len(executions) + 1]
                   ELSE [config EXCEPT !.enabled = TRUE]
             /\ executions' =
                   IF fast /\ failAt # 3 THEN StartExecution(executions) ELSE executions
             /\ stopResponded' = IF failAt \in {1, 2} THEN stopResponded ELSE FALSE
             /\ harness' = [fn |-> "POST /api/trading/start",
                            status |-> IF failAt = 0 \/ (~fast /\ failAt > 2)
                                       THEN 200 ELSE 500]
             /\ UNCHANGED <<detached, FAST_STATE_MACHINE_ARN, dailyTrades, trades, day,
                            isRunning, intervalId, timers, startPc, cycles, tripped>>

\* POST /api/trading/stop: the handler sends the get (whose then stops the fast
\* loop) and the update that disables, awaits neither and responds
PostTradingStop ==
    /\ detached.get < MaxDetached
    /\ detached.update < MaxDetached
    /\ detached' = [get |-> detached.get + 1, update |-> detached.update + 1]
    /\ stopResponded' = TRUE
    /\ harness' = [fn |-> "POST /api/trading/stop", status |-> 200]
    /\ UNCHANGED <<tradingConfig, executions, FAST_STATE_MACHINE_ARN, dailyTrades, trades,
                   day, isRunning, intervalId, timers, startPc, cycles, tripped>>

\* the get of a stop settles: its then stops the execution the record names;
\* a rejection of the get or of the StopExecution is logged by the catch
StopGetSettles ==
    /\ detached.get > 0
    /\ detached' = [detached EXCEPT !.get = @ - 1]
    /\ \E ok \in BOOLEAN :
          executions' =
             IF ok /\ tradingConfig.exists /\ tradingConfig.fast_execution_arn # NoArn
             THEN StopExecution(executions, tradingConfig.fast_execution_arn)
             ELSE executions
    /\ UNCHANGED <<tradingConfig, stopResponded, FAST_STATE_MACHINE_ARN, harness,
                   dailyTrades, trades, day, isRunning, intervalId, timers, startPc,
                   cycles, tripped>>

\* the update of a stop settles: enabled becomes false in the stored record; a
\* rejection is logged by the catch.  There is no record to update before the
\* first getOrCreateConfig
StopUpdateSettles ==
    /\ detached.update > 0
    /\ detached' = [detached EXCEPT !.update = @ - 1]
    /\ \E ok \in BOOLEAN :
          tradingConfig' =
             IF ok /\ tradingConfig.exists
             THEN [tradingConfig EXCEPT !.enabled = FALSE]
             ELSE tradingConfig
    /\ UNCHANGED <<executions, stopResponded, FAST_STATE_MACHINE_ARN, harness,
                   dailyTrades, trades, day, isRunning, intervalId, timers, startPc,
                   cycles, tripped>>

\* POST /api/trading/config with body {cadence, enabled}, either field possibly
\* absent (typeofEnabled is typeof enabled).  failAt is the await that rejects (0: none): 1 the getOrCreateConfig,
\* 2 the StopExecution, 3 the StartExecution, 4 the update.  An update whose
\* fast_execution_arn is undefined either clears the stored field or leaves it
PostTradingConfig ==
    \E cadence \in Cadences \cup {Absent}, typeofEnabled \in {"boolean", "undefined"},
       enabled \in BOOLEAN, failAt \in 0..4, clears \in BOOLEAN :
       \E current \in {getOrCreateConfig(tradingConfig)} :
          \E nextCadence \in {IF cadence = Absent THEN current.cadence ELSE cadence},
             nextEnabled \in {IF typeofEnabled = "boolean" THEN enabled
                             ELSE current.enabled} :
             \E stops \in {/\ failAt \notin {1, 2}
                           /\ nextCadence # "FAST_5S"
                           /\ current.fast_execution_arn # NoArn},
                starts \in {/\ failAt \notin {1, 2, 3}
                            /\ nextCadence = "FAST_5S"
                            /\ nextEnabled
                            /\ FAST_STATE_MACHINE_ARN} :
                /\ starts => Len(executions) < MaxExecutions
                /\ executions' =
                      IF stops THEN StopExecution(executions, current.fast_execution_arn)
                      ELSE IF starts THEN StartExecution(executions)
                      ELSE executions
                /\ tradingConfig' =
                      IF failAt = 1 THEN tradingConfig
                      ELSE IF failAt # 0 THEN current
                      ELSE [exists |-> TRUE, cadence |-> nextCadence,
                            enabled |-> nextEnabled,
                            fast_execution_arn |->
                               IF starts THEN Len(executions) + 1
                               ELSE IF stops /\ clears THEN NoArn
                               ELSE current.fast_execution_arn]
                /\ stopResponded' =
                      IF failAt = 0 /\ nextEnabled THEN FALSE ELSE stopResponded
                /\ harness' = [fn |-> "POST /api/trading/config",
                               status |-> IF failAt = 0 THEN 200 ELSE 500]
                /\ UNCHANGED <<detached, FAST_STATE_MACHINE_ARN, dailyTrades, trades,
                               day, isRunning, intervalId, timers, startPc, cycles,
                               tripped>>

\* the runner's handler, invoked by a schedule or by the fast loop with a cadence:
\* it reads (or creates) the config, and runs tradingService.runOnce() unless the
\* config is disabled or of another cadence
handler ==
    \E invokedCadence \in Cadences :
       \E config \in {getOrCreateConfig(tradingConfig)} :
          /\ tradingConfig' = config
          /\ harness' = [fn |-> "handler", invokedCadence |-> invokedCadence,
                         enabled |-> config.enabled, cadence |-> config.cadence,
                         afterStop |-> stopResponded,
                         result |-> IF ~config.enabled THEN "disabled"
                                    ELSE IF config.cadence # invokedCadence
                                         THEN "cadence mismatch"
                                    ELSE "runOnce"]
          /\ UNCHANGED <<executions, detached, stopResponded, FAST_STATE_MACHINE_ARN,
                         dailyTrades, trades, day, isRunning, intervalId, timers,
                         startPc, cycles, tripped>>

NextApi ==
    \/ PostTradingStart
    \/ PostTradingStop
    \/ StopGetSettles
    \/ StopUpdateSettles
    \/ PostTradingConfig
    \/ handler

SpecApi == InitApi /\ [][NextApi]_vars

\* C38: a runner invocation runs a trading cycle only if the config it reads is
\* enabled and of the invocation's cadence, and none does between the response
\* of POST /api/trading/stop and the next start of trading
RunnerHonoursStop ==
    (harness.fn = "handler" /\ harness.result = "runOnce")
       => /\ harness.enabled
          /\ harness.cadence = harness.invokedCadence
          /\ ~harness.afterStop

\* C39: at most one fast-loop execution is running, and the stored
\* fast_execution_arn names the one that is
OneFastLoop ==
    /\ Cardinality(Running) <= 1
    /\ \A arn \in Running :
          tradingConfig.exists /\ tradingConfig.fast_execution_arn = arn
============================================================================
